---- MODULE Spec2Model ----
(***************************************************************************)
(* DocVerify: the Gemini verification route, the admin routes, the         *)
(* DocumentUploader component, the AuthProvider and the dashboard page,    *)
(* modelled as state machines.  Each subsystem has its own specification   *)
(* (SpecServer, SpecUploader, SpecAdmin, SpecAuth); the variables of the   *)
(* other subsystems stay at their initial values.                          *)
(***************************************************************************)
EXTENDS Integers, Sequences, FiniteSets, Bags, TLC

VARIABLES
    \* ---- api/gemini-verification/route.ts (module state) ----
    GEMINI_API_KEY,        \* TRUE iff process.env.GOOGLE_GEMINI_API_KEY is non-empty
    genAI,                 \* TRUE iff new GoogleGenerativeAI(...) succeeded
    apiCallsInLastMinute,  \* the rate-limit counter
    lastResetTime,         \* Date.now() at the last counter reset (ms)
    clock,                 \* Date.now() (ms)
    inflight,              \* the POST invocations suspended at an await (a bag)
    done,                  \* the POST invocation that has just produced its response
    \* ---- history of the route, for the properties ----
    monitor,               \* which history a run records: "responses" or "traffic"
    fwdRecent,             \* model calls per clock tick, newest first, over the
                           \*   ticks less than 60000 ms old
    windowFwd              \* model calls made since the last reset by requests
                           \*   counted since the last reset

VARIABLES
    \* ---- components/DocumentUploader.tsx (component state) ----
    files,                 \* the uploaded files, in order
    isUploading,
    isAnalyzing,
    isOcrRunning,
    moderationError,       \* "none" (null), "analyze" or "upload"
    rateLimit,             \* TRUE iff rateLimit is not null
    usingMockModeration,
    model,                 \* the MobileNet model: "loading", "loaded" or "failed"
    call,                  \* the running invocation of handleFileUpload
    \* ---- history of the uploader, for the properties ----
    lastData               \* the last response body analyzeWithGemini processed

VARIABLES
    \* ---- api/admin/*/route.ts (Firestore and the running handlers) ----
    usersDoc,              \* per uid, the users document: "missing", "user" or "admin"
    adminInflight,         \* the admin handlers suspended at an await (a bag)
    adminDone              \* the admin handler that has just produced its response

VARIABLES
    \* ---- contexts/AuthContext.tsx, app/dashboard/page.tsx, app/login/page.tsx ----
    currentUser,           \* AuthProvider state: "null" or a user
    loading,               \* AuthProvider state
    childrenShown,         \* TRUE iff the committed AuthProvider output has its children
    route,                 \* the page the router shows
    navigation,            \* the target of a router.push not yet completed, or "none"
    dashboardView,         \* the committed output of Dashboard
    loginLoading,          \* login page state
    loginError,            \* login page state: TRUE iff error is not ''
    authEvents,            \* the auth-state callbacks Firebase has still to deliver
    \* ---- history of the auth context, for the properties ----
    delivered              \* the user of the last auth-state callback, or "never"

VARIABLES
    \* ---- components/DocumentUploader.tsx (the local document heuristic) ----
    localInput,            \* the facts the checks find about the document
    localPc,               \* how far the heuristic has got
    detectedAnomalies,     \* the anomalies collected so far
    confidenceScore,       \* the running score, in hundredths
    localVerdict           \* the verificationDetails stored for the file

serverVars == <<GEMINI_API_KEY, genAI, apiCallsInLastMinute, lastResetTime,
                clock, inflight, done, monitor, fwdRecent, windowFwd>>

uploaderVars == <<files, isUploading, isAnalyzing, isOcrRunning, moderationError,
                  rateLimit, usingMockModeration, model, call, lastData>>

adminVars == <<usersDoc, adminInflight, adminDone>>

authVars == <<currentUser, loading, childrenShown, route, navigation,
              dashboardView, loginLoading, loginError, authEvents, delivered>>

localVars == <<localInput, localPc, detectedAnomalies, confidenceScore, localVerdict>>

VARIABLES
    \* ---- components/DocumentUploader.tsx (the camera) ----
    cameraActive,
    cameraPermissionDenied,
    cameraInitializing,
    cameraError,           \* "null" or the message set
    streamRef,             \* "null" or "live"
    initTimeoutRef,        \* the timer of the last initialization, if any
    cameraCalls            \* the handleCameraToggle calls suspended at an await (a bag)

cameraVars == <<cameraActive, cameraPermissionDenied, cameraInitializing, cameraError,
                streamRef, initTimeoutRef, cameraCalls>>

VARIABLES
    \* ---- app/admin/layout.tsx (AdminLayout) ----
    layoutMounted,         \* TRUE while a page under /admin is shown
    layoutUser,            \* currentUser of useAuth() as AdminLayout sees it
    layoutIsAdmin,         \* AdminLayout state isAdmin
    layoutLoading,         \* AdminLayout state loading
    layoutPush,            \* the router.push under way: "none" or its target
    layoutChecks,          \* the checkAdminStatus calls suspended at an await (a bag)
    layoutPassed           \* the users the endpoint answered OK for since the mount

layoutVars == <<layoutMounted, layoutUser, layoutIsAdmin, layoutLoading, layoutPush,
                layoutChecks, layoutPassed>>

VARIABLES
    \* ---- the register route and the User model ----
    userColl,              \* the users collection: the documents in insertion order
    registerInflight,      \* the register handlers suspended at an await (a bag)
    registerDone,          \* the handler that has just returned, and its response
    registerClock          \* the time: the number of requests received so far

registerVars == <<userColl, registerInflight, registerDone, registerClock>>

VARIABLES
    \* ---- api/admin/documents/route.ts (GET, after the admin check) ----
    docColl,               \* the documents collection
    docRequest,            \* the query parameters of the request being handled
    docPc,                 \* where its handler is
    docResponse,           \* the last response
    docSeen                \* the ids returned by the consecutive pages requested from page 1

documentsVars == <<docColl, docRequest, docPc, docResponse, docSeen>>

vars == <<serverVars, uploaderVars, adminVars, authVars, localVars, cameraVars, layoutVars,
          registerVars, documentsVars>>

----------------------------------------------------------------------------
(* Bounds of the model *)
MaxReq == 2          \* POST invocations that may overlap
MaxCalls == 12       \* cap on apiCallsInLastMinute
MaxTicks == 3        \* the clock stops after MaxTicks ticks
TickMs == 30000      \* one clock tick, in ms
MaxFiles == 2        \* files in the uploader's list
MaxAdminReq == 2     \* admin requests that may overlap
MaxEvents == 2       \* auth-state callbacks that may be outstanding
MaxCameraCalls == 2  \* handleCameraToggle calls under way at once
MaxLayoutChecks == 2 \* checkAdminStatus calls under way at once
MaxRegistrations == 2 \* register requests received
MaxRegisterReq == 2  \* register requests that may overlap
MaxDocs == 3         \* documents in the collection
MaxLimit == 2        \* the largest limit requested
MaxPage == 4         \* the largest page requested

(* Program constants *)
RATE_LIMIT_RESET_INTERVAL == 60000
RATE_LIMIT_MAX == 10
DOC_START_SCORE == 90        \* let confidenceScore = 0.9, in hundredths
PDF_START_SCORE == 95        \* let confidenceScore = 0.95, in hundredths
MIN_SCORE == 10              \* Math.max(0.1, ...), in hundredths
MAX_SCORE == 100             \* Math.min(1, ...), in hundredths

----------------------------------------------------------------------------
(* Responses of the Gemini verification route *)

NoVerification == [present |-> FALSE, isLikelyGenuine |-> FALSE,
                   isLikelyAiGenerated |-> FALSE, moderationStatus |-> "none",
                   simulated |-> FALSE]

NoResp == [http |-> 0, status |-> "none", verification |-> NoVerification,
           mockImplementation |-> FALSE, mockReason |-> "none",
           error |-> FALSE, rateLimit |-> FALSE]

\* the object analyzeWithGemini returns from its catch block: the text of
\* analysisExplanation is "This is a mock verification result..." (simulated)
GeminiFallbackAnalysis ==
    [isLikelyGenuine |-> TRUE, isLikelyAiGenerated |-> FALSE, simulated |-> TRUE]

\* how a model call ends
ModelOutcomes == {"ok", "callThrows", "timeout", "textThrows", "noJson", "badJson"}

\* analyzeWithGemini once generateContent has been called: the parsed JSON of
\* the reply, or the fallback object for every failure (it never throws)
analyzeWithGemini(outcome, genuine, aiGenerated) ==
    IF outcome = "ok"
    THEN [isLikelyGenuine |-> genuine, isLikelyAiGenerated |-> aiGenerated,
          simulated |-> FALSE]
    ELSE GeminiFallbackAnalysis

\* the response POST builds from analyzeWithGemini's result
VerificationResponse(analysis) ==
    [http |-> 200, status |-> "success",
     verification |-> [present |-> TRUE,
                       isLikelyGenuine |-> analysis.isLikelyGenuine,
                       isLikelyAiGenerated |-> analysis.isLikelyAiGenerated,
                       moderationStatus |->
                           IF analysis.isLikelyGenuine THEN "safe" ELSE "flagged",
                       simulated |-> analysis.simulated],
     mockImplementation |-> FALSE, mockReason |-> "none", error |-> FALSE,
     rateLimit |-> TRUE]

\* a plausible slip: the mock is answered as a server error
provideMockResponse_AsError(reason, shouldFlag, aiGenerated) ==
    [http |-> 500, status |-> "error", verification |-> NoVerification,
     mockImplementation |-> FALSE, mockReason |-> reason, error |-> TRUE,
     rateLimit |-> TRUE]

\* provideMockResponse; shouldFlag and aiGenerated are its Math.random() draws
provideMockResponse(reason, shouldFlag, aiGenerated) ==
    [http |-> 200, status |-> "success",
     verification |-> [present |-> TRUE,
                       isLikelyGenuine |-> ~shouldFlag,
                       isLikelyAiGenerated |-> shouldFlag /\ aiGenerated,
                       moderationStatus |-> IF shouldFlag THEN "flagged" ELSE "safe",
                       simulated |-> TRUE],
     mockImplementation |-> TRUE, mockReason |-> reason, error |-> FALSE,
     rateLimit |-> TRUE]

\* the response for a form without an image file
NoImageResponse ==
    [http |-> 200, status |-> "success",
     verification |-> [present |-> TRUE, isLikelyGenuine |-> FALSE,
                       isLikelyAiGenerated |-> FALSE,
                       moderationStatus |-> "flagged", simulated |-> FALSE],
     mockImplementation |-> TRUE, mockReason |-> "none", error |-> TRUE,
     rateLimit |-> FALSE]

----------------------------------------------------------------------------
(* The Gemini verification route as a state machine *)

\* what a request carries: a form with an image, a form without one, or a
\* body formData() cannot parse
Forms == {"image", "noImage", "unparsable"}

\* a suspended invocation: where it waits, whether it was counted past the
\* limit, and whether the counter was reset while it waited for its form
Waiting(pc, over, stale) == [pc |-> pc, over |-> over, stale |-> stale]

NoDone == [active |-> FALSE, form |-> "none", over |-> FALSE, stale |-> FALSE,
           forwarded |-> FALSE, checkedOver |-> FALSE, resp |-> NoResp]

\* the record of a finished invocation; the response and the request's history
\* are recorded by the runs that monitor responses
Finished(form, e, forwarded, checkedOver, response) ==
    IF monitor = "responses"
    THEN [active |-> TRUE, form |-> form, over |-> e.over, stale |-> e.stale,
          forwarded |-> forwarded, checkedOver |-> checkedOver, resp |-> response]
    ELSE [NoDone EXCEPT !.active = TRUE]

\* a plausible slip: the reset also fires exactly at the interval
ResetDue_AtInterval(now) == now - lastResetTime >= RATE_LIMIT_RESET_INTERVAL

\* line 345: if (now - lastResetTime > RATE_LIMIT_RESET_INTERVAL)
ResetDue(now) == now - lastResetTime > RATE_LIMIT_RESET_INTERVAL

\* a plausible slip: off by one in the limit
RateLimited_OffByOne(count) == count > RATE_LIMIT_MAX + 1

\* line 434: if (apiCallsInLastMinute > 10)
RateLimited(count) == count > RATE_LIMIT_MAX

\* the number of clock ticks less than RATE_LIMIT_RESET_INTERVAL ms old
WindowTicks == ((RATE_LIMIT_RESET_INTERVAL - 1) \div TickMs) + 1

One(e) == SetToBag({e})

\* the invocations waiting for their form when the counter is reset
Aged(B) ==
    LET age(e) == IF e.pc = "formData" THEN [e EXCEPT !.stale = TRUE] ELSE e
        S == {age(e) : e \in BagToSet(B)}
        n(x) == IF BagIn(x, B) THEN CopiesIn(x, B) ELSE 0
    IN  [x \in S |->
            IF x.pc = "formData"
            THEN n(x) + n([x EXCEPT !.stale = FALSE])
            ELSE n(x)]

ServerInit(m) ==
    /\ monitor = m
    /\ GEMINI_API_KEY \in BOOLEAN
    /\ genAI \in BOOLEAN
    /\ genAI => GEMINI_API_KEY
    /\ apiCallsInLastMinute = 0
    /\ lastResetTime = 0
    /\ clock = 0
    /\ inflight = EmptyBag
    /\ done = NoDone
    /\ fwdRecent = [i \in 1..WindowTicks |-> 0]
    /\ windowFwd = 0

\* POST, from its entry to its first await (request.formData()); without an
\* API key it answers at once, whatever the request carries
PostStart ==
    /\ ~done.active
    /\ BagCardinality(inflight) < MaxReq
    /\ LET reset == ResetDue(clock)
           count == IF reset THEN 1 ELSE apiCallsInLastMinute + 1
           aged  == IF reset THEN Aged(inflight) ELSE inflight
           mine  == Waiting("formData",
                            monitor = "responses" /\ count > RATE_LIMIT_MAX, FALSE)
       IN  /\ count <= MaxCalls
           /\ apiCallsInLastMinute' = count
           /\ lastResetTime' = IF reset THEN clock ELSE lastResetTime
           /\ windowFwd' = IF reset THEN 0 ELSE windowFwd
           /\ IF ~GEMINI_API_KEY
              THEN \E form \in Forms, shouldFlag \in BOOLEAN :
                    \E aiGenerated \in (IF shouldFlag THEN BOOLEAN ELSE {FALSE}) :
                      /\ inflight' = aged
                      /\ done' = Finished(form, mine, FALSE, FALSE,
                                    provideMockResponse("API key missing",
                                                        shouldFlag, aiGenerated))
              ELSE /\ inflight' = aged (+) One(mine)
                   /\ done' = done
    /\ UNCHANGED <<GEMINI_API_KEY, genAI, clock, monitor, fwdRecent>>

\* POST, from the resolution of formData() to the call of generateContent
\* (or to the response, when the model is not called)
PostFormData(e) ==
    /\ ~done.active
    /\ BagIn(e, inflight)
    /\ e.pc = "formData"
    /\ \E form \in Forms :
        LET count == apiCallsInLastMinute
            answer(checkedOver, response) ==
                /\ inflight' = inflight (-) One(e)
                /\ done' = Finished(form, e, FALSE, checkedOver, response)
                /\ UNCHANGED <<fwdRecent, windowFwd>>
            mock(checkedOver, reason) ==
                \E shouldFlag \in BOOLEAN :
                    \E aiGenerated \in (IF shouldFlag THEN BOOLEAN ELSE {FALSE}) :
                        answer(checkedOver,
                               provideMockResponse(reason, shouldFlag, aiGenerated))
        IN
        CASE form = "unparsable" -> mock(FALSE, "formData failed")
          [] form = "noImage" -> answer(FALSE, NoImageResponse)
          [] form = "image" /\ RateLimited(count) -> mock(TRUE, "Rate limit exceeded")
          [] form = "image" /\ ~RateLimited(count) ->
                \* imageFile.arrayBuffer() rejects: the outer catch
                \/ mock(FALSE, "arrayBuffer failed")
                \* analyzeWithGemini throws before generateContent (no client,
                \* or getGenerativeModel throws) and catches it
                \/ /\ \E modelInstanceOk \in BOOLEAN : ~genAI \/ ~modelInstanceOk
                   /\ answer(FALSE, VerificationResponse(GeminiFallbackAnalysis))
                \* generateContent is called
                \/ /\ genAI
                   /\ inflight' = (inflight (-) One(e)) (+) One([e EXCEPT !.pc = "model"])
                   /\ done' = done
                   /\ fwdRecent' = IF monitor = "traffic"
                                   THEN [fwdRecent EXCEPT ![1] = @ + 1] ELSE fwdRecent
                   /\ windowFwd' = IF monitor = "traffic" /\ ~e.stale
                                   THEN windowFwd + 1 ELSE windowFwd
    /\ UNCHANGED <<GEMINI_API_KEY, genAI, apiCallsInLastMinute, lastResetTime,
                   clock, monitor>>

\* POST, from the end of Promise.race([apiPromise, timeoutPromise]) to the response
PostModelDone(e) ==
    /\ ~done.active
    /\ BagIn(e, inflight)
    /\ e.pc = "model"
    /\ \E outcome \in ModelOutcomes, genuine \in BOOLEAN, aiGenerated \in BOOLEAN :
        /\ inflight' = inflight (-) One(e)
        /\ done' = Finished("image", e, TRUE, FALSE,
                      VerificationResponse(
                          analyzeWithGemini(outcome, genuine, aiGenerated)))
    /\ UNCHANGED <<GEMINI_API_KEY, genAI, apiCallsInLastMinute, lastResetTime,
                   clock, monitor, fwdRecent, windowFwd>>

\* the response is returned to the caller
PostReturn ==
    /\ done.active
    /\ done' = NoDone
    /\ UNCHANGED <<GEMINI_API_KEY, genAI, apiCallsInLastMinute, lastResetTime,
                   clock, inflight, monitor, fwdRecent, windowFwd>>

\* time passes
Tick ==
    /\ ~done.active
    /\ clock + TickMs <= MaxTicks * TickMs
    /\ clock' = clock + TickMs
    /\ fwdRecent' = [i \in 1..WindowTicks |-> IF i = 1 THEN 0 ELSE fwdRecent[i - 1]]
    /\ UNCHANGED <<GEMINI_API_KEY, genAI, apiCallsInLastMinute, lastResetTime,
                   inflight, done, monitor, windowFwd>>


----------------------------------------------------------------------------
(* DocumentUploader: local heuristics *)

\* what extractTextFromImage can return for an image: the recognised text, by
\* the suspicious patterns it matches, or one of its two fixed fallback texts
OcrTexts == {"plain", "fake", "notValid", "fakeNotValid", "failed"}

\* suspiciousTextPatterns applied to the OCR text; neither fallback text
\* matches either pattern
TextAnomalies(text) ==
    (IF text \in {"fake", "fakeNotValid"} THEN {"fakeTerms"} ELSE {})
        \cup (IF text \in {"notValid", "fakeNotValid"} THEN {"notValidDisclaimer"} ELSE {})

\* the anomalies extractPdfMetadata collects (hasCorrectType holds for every
\* file the PDF branch handles)
PdfAnomalies(small, hasPdfHeader, suspiciousName, textRead, creatorAI, producerAI, missingMost) ==
    (IF small THEN {"smallPdf"} ELSE {})
        \cup (IF ~hasPdfHeader THEN {"noPdfHeader"} ELSE {})
        \cup (IF suspiciousName THEN {"suspiciousName"} ELSE {})
        \cup (IF hasPdfHeader /\ textRead /\ creatorAI THEN {"creatorAI"} ELSE {})
        \cup (IF hasPdfHeader /\ textRead /\ producerAI THEN {"producerAI"} ELSE {})
        \cup (IF hasPdfHeader /\ textRead /\ missingMost THEN {"missingMetadata"} ELSE {})

\* the anomalies of the doc/docx branch
DocAnomalies(small, suspiciousName, typeMismatch) ==
    (IF small THEN {"smallDoc"} ELSE {})
        \cup (IF suspiciousName THEN {"suspiciousName"} ELSE {})
        \cup (IF typeMismatch THEN {"extensionMismatch"} ELSE {})

\* the anomalies whose text contains "does not have a valid PDF header",
\* "File extension doesn't match", "fake" or "specimen"
CriticalAnomalies == {"noPdfHeader", "extensionMismatch", "fakeTerms"}

\* lines 521-526: isLikelyAiGenerated of the local verdict
LocalIsLikelyAiGenerated(anomalies) == anomalies \cap CriticalAnomalies # {}

----------------------------------------------------------------------------
(* DocumentUploader: records *)

Kinds == {"image", "pdf", "doc", "other"}

\* a file handed to handleFileUpload; ok says whether the browser can decode
\* the image (img.onload fires) or read the PDF (FileReader.onload fires)
FileInputs ==
    {[kind |-> k, ok |-> b] : k \in {"image", "pdf"}, b \in BOOLEAN}
        \cup {[kind |-> k, ok |-> TRUE] : k \in {"doc", "other"}}

NoDetails == [source |-> "none", isLikelyGenuine |-> FALSE,
              isLikelyAiGenerated |-> FALSE, moderationStatus |-> "none"]

\* an entry of files; failed records that the verification of the file failed
PendingFile(kind) == [kind |-> kind, moderationStatus |-> "pending",
                      verificationDetails |-> NoDetails, failed |-> FALSE]

NoOcr == [done |-> FALSE, text |-> "none"]

NoRequest == [sent |-> FALSE, kind |-> "none", features |-> "none",
              ocrText |-> "none", textAnomalies |-> {}]

IdleCall == [pc |-> "idle", batch |-> <<>>, i |-> 0, base |-> 0,
             modelSeen |-> FALSE, ocr |-> NoOcr, features |-> "none",
             classified |-> FALSE, local |-> NoDetails, request |-> NoRequest]

NoData == [present |-> FALSE, simulated |-> FALSE, mockImplementation |-> FALSE]

\* the response bodies the verification route produces for the uploader's
\* requests, which always carry a file under 'image'
MockReasons == {"API key missing", "Rate limit exceeded"}

RouteResponses ==
    {provideMockResponse(r, f, a) :
        r \in MockReasons, f \in BOOLEAN, a \in BOOLEAN}
    \cup {VerificationResponse(analyzeWithGemini(o, g, a)) :
        o \in ModelOutcomes, g \in BOOLEAN, a \in BOOLEAN}

\* bodies the route does not produce but analyzeWithGemini provides for: an
\* error payload and a body without a verification object
ErrorPayload == [NoResp EXCEPT !.http = 200, !.status = "error", !.error = TRUE]

UnexpectedBody == [NoResp EXCEPT !.http = 200, !.status = "success"]

ResponseBodies == RouteResponses \cup {ErrorPayload, UnexpectedBody}

\* how fetch and response.json() can fail before a body is processed
FetchFailures == {"rejected", "notOk", "badJson"}

----------------------------------------------------------------------------
(* DocumentUploader: analyzeWithGemini (client side) *)

\* a plausible slip: the type test never holds, so classification is skipped
NeedsFeatureExtraction_Never(modelSeen, kind) == modelSeen /\ kind = "image/"

\* line 171: if (model && file.type.startsWith('image/'))
NeedsFeatureExtraction(modelSeen, kind) == modelSeen /\ kind = "image"

\* lines 178-215: the form sent to /api/gemini-verification; 'features' is
\* appended when the vector is not empty, 'metadata' carries the OCR fields
BuildRequest(kind, features, ocrText) ==
    [sent |-> TRUE, kind |-> kind,
     features |-> IF features = "vector" THEN "vector" ELSE "none",
     ocrText |-> ocrText, textAnomalies |-> TextAnomalies(ocrText)]

\* lines 251-276: what analyzeWithGemini returns for a body without error
GeminiDetails(data) ==
    IF data.status = "success" /\ data.verification.present
    THEN [source |-> "gemini",
          isLikelyGenuine |-> data.verification.isLikelyGenuine,
          isLikelyAiGenerated |-> data.verification.isLikelyAiGenerated,
          moderationStatus |->
              IF data.verification.isLikelyGenuine THEN "safe" ELSE "flagged"]
    ELSE [source |-> "skipped", isLikelyGenuine |-> TRUE,
          isLikelyAiGenerated |-> FALSE, moderationStatus |-> "none"]

\* lines 519-545: the local verdict for a document
LocalDetails(anomalies) ==
    [source |-> "local",
     isLikelyGenuine |-> ~LocalIsLikelyAiGenerated(anomalies),
     isLikelyAiGenerated |-> LocalIsLikelyAiGenerated(anomalies),
     moderationStatus |-> "none"]

\* lines 589-595: the details of a file whose processing threw
FailedDetails == [source |-> "failed", isLikelyGenuine |-> FALSE,
                  isLikelyAiGenerated |-> FALSE, moderationStatus |-> "none"]

\* lines 567-573: a file type that is not verified
UnsupportedDetails == [source |-> "unsupported", isLikelyGenuine |-> TRUE,
                       isLikelyAiGenerated |-> FALSE, moderationStatus |-> "none"]

\* lines 374, 452, 554: moderationStatus follows isLikelyAiGenerated
StatusOf(details) ==
    IF details.isLikelyAiGenerated THEN "flagged" ELSE "safe"

\* lines 584-598: the file whose processing threw
FailedFile(f) ==
    [f EXCEPT !.moderationStatus = "flagged", !.verificationDetails = FailedDetails,
              !.failed = TRUE]

\* setFiles(prev => prev.map(f => f.id === fileId ? {...f, ...} : f))
VerifiedFile(f, details, failed) ==
    [f EXCEPT !.moderationStatus = StatusOf(details),
              !.verificationDetails = details, !.failed = failed]

----------------------------------------------------------------------------
(* DocumentUploader: handleFileUpload as a state machine *)

UploaderInit ==
    /\ files = <<>>
    /\ isUploading = FALSE
    /\ isAnalyzing = FALSE
    /\ isOcrRunning = FALSE
    /\ moderationError = "none"
    /\ rateLimit = FALSE
    /\ usingMockModeration = FALSE
    /\ model = "loading"
    /\ call = IdleCall
    /\ lastData = NoData

CurrentFile == call.batch[call.i]

CurrentIndex == call.base + call.i

\* all non-empty sequences over S of length at most n
RECURSIVE SeqsUpTo(_, _)
SeqsUpTo(S, n) ==
    IF n <= 0 THEN {}
    ELSE {<<x>> : x \in S}
            \cup {Append(q, x) : q \in SeqsUpTo(S, n - 1), x \in S}

\* the end of one iteration of the for loop of line 323: the next file, or the
\* finally block of lines 604-607
NextFileOrFinish(f) ==
    /\ files' = [files EXCEPT ![CurrentIndex] = f]
    /\ IF call.i < Len(call.batch)
       THEN /\ call' = [IdleCall EXCEPT !.pc = "file", !.batch = call.batch,
                            !.i = call.i + 1, !.base = call.base,
                            !.modelSeen = call.modelSeen]
            /\ UNCHANGED <<isUploading, isAnalyzing>>
       ELSE /\ call' = IdleCall
            /\ isUploading' = FALSE
            /\ isAnalyzing' = FALSE

\* useEffect of lines 81-107: mobilenet.load() resolves or rejects
ModelLoaded ==
    /\ model = "loading"
    /\ model' = "loaded"
    /\ UNCHANGED <<files, isUploading, isAnalyzing, isOcrRunning, moderationError,
                   rateLimit, usingMockModeration, call, lastData>>

ModelLoadFailed ==
    /\ model = "loading"
    /\ model' = "failed"
    /\ UNCHANGED <<files, isUploading, isAnalyzing, isOcrRunning, moderationError,
                   rateLimit, usingMockModeration, call, lastData>>

\* handleFileUpload, lines 286-320, for a non-empty FileList (an empty one
\* returns at once); the overlay shown while isAnalyzing covers the page, so
\* no second call starts before the first has finished
StartUpload(batch) ==
    /\ call.pc = "idle"
    /\ ~isAnalyzing
    /\ Len(batch) > 0
    /\ Len(files) + Len(batch) <= MaxFiles
    /\ moderationError' = "none"
    /\ isUploading' = TRUE
    /\ files' = files \o [k \in 1..Len(batch) |-> PendingFile(batch[k].kind)]
    /\ isAnalyzing' = TRUE
    /\ call' = [IdleCall EXCEPT !.pc = "file", !.batch = batch, !.i = 1,
                    !.base = Len(files), !.modelSeen = (model = "loaded")]
    /\ UNCHANGED <<isOcrRunning, rateLimit, usingMockModeration, model, lastData>>

\* lines 323-336 and 384-397, 482-577: the branch on the file's type, up to
\* its first await; a doc/docx or unsupported file is finished here
BeginFile ==
    /\ call.pc = "file"
    /\ CASE CurrentFile.kind = "image" ->
              /\ call' = [call EXCEPT !.pc = "ocrLoad"]
              /\ isOcrRunning' = TRUE
              /\ UNCHANGED <<files, isUploading, isAnalyzing>>
         [] CurrentFile.kind = "pdf" ->
              \* extractTextFromImage returns its fixed text for a PDF
              /\ call' = [call EXCEPT !.pc = "pdfHeader",
                              !.ocr = [done |-> TRUE, text |-> "pdfFixed"]]
              /\ UNCHANGED <<files, isUploading, isAnalyzing, isOcrRunning>>
         [] CurrentFile.kind = "doc" ->
              /\ \E small \in BOOLEAN, suspiciousName \in BOOLEAN,
                    typeMismatch \in BOOLEAN :
                     NextFileOrFinish(
                        VerifiedFile(files[CurrentIndex],
                            LocalDetails(DocAnomalies(small, suspiciousName,
                                                      typeMismatch)),
                            FALSE))
              /\ UNCHANGED isOcrRunning
         [] CurrentFile.kind = "other" ->
              /\ NextFileOrFinish(
                    VerifiedFile(files[CurrentIndex], UnsupportedDetails, FALSE))
              /\ UNCHANGED isOcrRunning
    /\ UNCHANGED <<moderationError, rateLimit, usingMockModeration, model, lastData>>

\* a plausible slip: analyzeWithGemini is entered without waiting for the text
EnterAnalyze_Unawaited(ocrText) ==
    IF call.modelSeen /\ CurrentFile.kind = "image"
    THEN call' = [call EXCEPT !.pc = "featLoad"]
    ELSE call' = [call EXCEPT !.pc = "fetch",
                      !.request = BuildRequest(CurrentFile.kind, "none", "none")]

\* analyzeWithGemini, lines 165-215, entered with the OCR result: it waits for
\* the feature extraction, or sends the request
EnterAnalyze(ocrText) ==
    IF NeedsFeatureExtraction(call.modelSeen, CurrentFile.kind)
    THEN call' = [call EXCEPT !.pc = "featLoad",
                      !.ocr = [done |-> TRUE, text |-> ocrText]]
    ELSE call' = [call EXCEPT !.pc = "fetch",
                      !.ocr = [done |-> TRUE, text |-> ocrText],
                      !.request = BuildRequest(CurrentFile.kind, "none", ocrText)]

\* extractTextFromImage, lines 1189-1196: the image loads, or fails to load
\* and the catch block returns the fallback text
OcrImageLoad ==
    /\ call.pc = "ocrLoad"
    /\ IF CurrentFile.ok
       THEN /\ call' = [call EXCEPT !.pc = "ocrRecognize"]
            /\ UNCHANGED isOcrRunning
       ELSE /\ EnterAnalyze("failed")
            /\ isOcrRunning' = FALSE
    /\ UNCHANGED <<files, isUploading, isAnalyzing, moderationError, rateLimit,
                   usingMockModeration, model, lastData>>

\* extractTextFromImage, lines 1198-1246: Tesseract.recognize resolves or throws
OcrRecognize ==
    /\ call.pc = "ocrRecognize"
    /\ \E text \in OcrTexts : EnterAnalyze(text)
    /\ isOcrRunning' = FALSE
    /\ UNCHANGED <<files, isUploading, isAnalyzing, moderationError, rateLimit,
                   usingMockModeration, model, lastData>>

\* extractImageFeatures, lines 119-127: the promise resolves in img.onload
\* only; nothing settles it when the image fails to load
FeatureImageLoad ==
    /\ call.pc = "featLoad"
    /\ CurrentFile.ok
    /\ call' = [call EXCEPT !.pc = "classify"]
    /\ UNCHANGED <<files, isUploading, isAnalyzing, isOcrRunning, moderationError,
                   rateLimit, usingMockModeration, model, lastData>>

\* extractImageFeatures, lines 129-148, and the sending of the request:
\* model.classify resolves (a vector) or throws (an empty list)
Classify ==
    /\ call.pc = "classify"
    /\ \E features \in {"vector", "empty"} :
        call' = [call EXCEPT !.pc = "fetch", !.features = features,
                     !.classified = TRUE,
                     !.request = BuildRequest(CurrentFile.kind, features,
                                              call.ocr.text)]
    /\ UNCHANGED <<files, isUploading, isAnalyzing, isOcrRunning, moderationError,
                   rateLimit, usingMockModeration, model, lastData>>

\* extractPdfMetadata, lines 998-1005 and 1039-1042: readFileHeader resolves in
\* reader.onload only; with a PDF header the content is read next, without
\* one the local verdict is ready and the request is sent (lines 422-444)
PdfHeaderRead ==
    /\ call.pc = "pdfHeader"
    /\ CurrentFile.ok
    /\ \/ call' = [call EXCEPT !.pc = "pdfText"]
       \/ \E small \in BOOLEAN, suspiciousName \in BOOLEAN :
            LET a == PdfAnomalies(small, FALSE, suspiciousName, FALSE,
                                  FALSE, FALSE, FALSE)
            IN  call' = [call EXCEPT !.pc = "fetch", !.local = LocalDetails(a),
                             !.request = BuildRequest("pdf", "none", call.ocr.text)]
    /\ UNCHANGED <<files, isUploading, isAnalyzing, isOcrRunning, moderationError,
                   rateLimit, usingMockModeration, model, lastData>>

\* extractPdfMetadata, lines 1042-1107, and lines 422-444: readFileAsText
\* resolves or rejects, the local verdict is ready and the request is sent
PdfTextRead ==
    /\ call.pc = "pdfText"
    /\ \E small \in BOOLEAN, suspiciousName \in BOOLEAN, textRead \in BOOLEAN,
          creatorAI \in BOOLEAN, producerAI \in BOOLEAN, missingMost \in BOOLEAN :
        \* with a Creator and a Producer at most two fields are missing
        /\ ~(creatorAI /\ producerAI /\ missingMost)
        /\ LET a == PdfAnomalies(small, TRUE, suspiciousName, textRead,
                                 creatorAI, producerAI, missingMost)
           IN  call' = [call EXCEPT !.pc = "fetch", !.local = LocalDetails(a),
                            !.request = BuildRequest("pdf", "none", call.ocr.text)]
    /\ UNCHANGED <<files, isUploading, isAnalyzing, isOcrRunning, moderationError,
                   rateLimit, usingMockModeration, model, lastData>>

\* a plausible slip: the failure of a PDF's request reaches the catch block
\* of line 578 as that of an image does
AfterThrow_AlwaysCatch ==
    /\ moderationError' = "analyze"
    /\ NextFileOrFinish(FailedFile(files[CurrentIndex]))

\* the file after analyzeWithGemini has thrown: an image goes to the catch
\* block of line 578, a PDF falls back to the local verdict (lines 465-558)
AfterThrow ==
    IF CurrentFile.kind = "image"
    THEN /\ moderationError' = "analyze"
         /\ NextFileOrFinish(FailedFile(files[CurrentIndex]))
    ELSE /\ moderationError' = moderationError
         /\ NextFileOrFinish(
                VerifiedFile(files[CurrentIndex], call.local, TRUE))

\* analyzeWithGemini, lines 212-222 and 225: fetch rejects, the status is not
\* OK, or the body is not JSON
FetchFails ==
    /\ call.pc = "fetch"
    /\ \E failure \in FetchFailures : AfterThrow
    /\ UNCHANGED <<isOcrRunning, rateLimit, usingMockModeration, model, lastData>>

\* analyzeWithGemini, lines 225-276, and lines 366-383 or 445-464: a body
\* arrives and is processed
FetchAnswers ==
    /\ call.pc = "fetch"
    /\ \E data \in ResponseBodies :
        /\ usingMockModeration' = data.mockImplementation
        /\ rateLimit' = (rateLimit \/ data.rateLimit)
        /\ lastData' = [present |-> TRUE,
                        simulated |-> data.verification.simulated,
                        mockImplementation |-> data.mockImplementation]
        /\ IF data.error
           THEN AfterThrow
           ELSE /\ NextFileOrFinish(
                      VerifiedFile(files[CurrentIndex], GeminiDetails(data), FALSE))
                /\ UNCHANGED moderationError
    /\ UNCHANGED <<isOcrRunning, model>>

\* lines 985-987: a file is removed from the list (the overlay shown while
\* isAnalyzing covers the button)
deleteFile ==
    /\ call.pc = "idle"
    /\ ~isAnalyzing
    /\ \E k \in 1..Len(files) :
        files' = [j \in 1..(Len(files) - 1) |->
                     IF j < k THEN files[j] ELSE files[j + 1]]
    /\ UNCHANGED <<isUploading, isAnalyzing, isOcrRunning, moderationError,
                   rateLimit, usingMockModeration, model, call, lastData>>

\* one step of the running call
UploadStep ==
    \/ BeginFile
    \/ OcrImageLoad
    \/ OcrRecognize
    \/ FeatureImageLoad
    \/ Classify
    \/ PdfHeaderRead
    \/ PdfTextRead
    \/ FetchFails
    \/ FetchAnswers

\* lines 1282 and 1293: the two notification banners
DemoModeShown == usingMockModeration

LiveApiModeShown == ~usingMockModeration /\ Len(files) > 0 /\ moderationError = "none"

----------------------------------------------------------------------------
(* The admin routes: GET admin/users, GET admin/documents, POST make-admin *)

AdminRoutes == {"users", "documents", "make-admin"}

\* the accounts of the identity provider
AuthUsers == {"alice", "bob"}

\* the authorization header of a request: absent, of another scheme, or
\* 'Bearer <token>' where the token is some user's ID token or verifies to none
Headers ==
    {[scheme |-> "none", token |-> "none"], [scheme |-> "Basic", token |-> "none"]}
        \cup {[scheme |-> "Bearer", token |-> t] : t \in AuthUsers \cup {"invalid"}}

\* targetUserId of a make-admin body: absent, an account, or no account
Targets == {"none", "ghost"} \cup AuthUsers

NoAdminResp == [status |-> 0, data |-> FALSE, wrote |-> FALSE]

AdminError(status) == [status |-> status, data |-> FALSE, wrote |-> FALSE]

\* NextResponse.json({ users }) and NextResponse.json({ documents, pagination })
AdminData == [status |-> 200, data |-> TRUE, wrote |-> FALSE]

\* NextResponse.json({ success: true, message: ... }) of make-admin
AdminGranted == [status |-> 200, data |-> FALSE, wrote |-> TRUE]

AdminWaiting(rt, pc, uid, target) ==
    [route |-> rt, pc |-> pc, uid |-> uid, target |-> target]

NoAdminDone == [active |-> FALSE, route |-> "none", scheme |-> "none",
                uid |-> "none", lookup |-> "none", resp |-> NoAdminResp]

\* the handler that has returned: its route, the scheme of its header, the uid
\* its token verified to ("none" when it did not), how the isAdmin lookup
\* ended ("none", "failed", "notAdmin", "admin"), and its response
AdminFinished(rt, scheme, uid, lookup, resp) ==
    [active |-> TRUE, route |-> rt, scheme |-> scheme, uid |-> uid,
     lookup |-> lookup, resp |-> resp]

\* a plausible slip: a failed lookup lets the caller through
isAdmin_FailOpen(userId, lookupOk) == ~lookupOk \/ usersDoc[userId] = "admin"

\* isAdmin, lines 5-14: userData?.isAdmin === true, false when the lookup throws
isAdmin(userId, lookupOk) == lookupOk /\ usersDoc[userId] = "admin"

AdminInit ==
    /\ usersDoc \in [AuthUsers -> {"missing", "user", "admin"}]
    /\ adminInflight = EmptyBag
    /\ adminDone = NoAdminDone

\* lines 16-27: the handler starts; without a 'Bearer ' header it answers 401,
\* otherwise it waits for verifyIdToken
AdminStart ==
    /\ ~adminDone.active
    /\ BagCardinality(adminInflight) < MaxAdminReq
    /\ \E rt \in AdminRoutes, h \in Headers :
        IF h.scheme # "Bearer"
        THEN /\ adminDone' = AdminFinished(rt, h.scheme, "none", "none", AdminError(401))
             /\ UNCHANGED adminInflight
        ELSE /\ adminInflight' =
                    adminInflight (+) One(AdminWaiting(rt, "verifyIdToken", h.token, "none"))
             /\ UNCHANGED adminDone
    /\ UNCHANGED usersDoc

\* lines 27-28: verifyIdToken resolves to the uid, or throws (500)
AdminVerifyIdToken(e) ==
    /\ ~adminDone.active
    /\ e.pc = "verifyIdToken"
    /\ IF e.uid = "invalid"
       THEN /\ adminDone' = AdminFinished(e.route, "Bearer", "none", "none", AdminError(500))
            /\ adminInflight' = adminInflight (-) One(e)
       ELSE /\ adminInflight' =
                    (adminInflight (-) One(e)) (+) One([e EXCEPT !.pc = "isAdmin"])
            /\ UNCHANGED adminDone
    /\ UNCHANGED usersDoc

\* lines 31-34: the admin check; a caller who passes goes on to the body of
\* the route
AdminCheck(e) ==
    /\ ~adminDone.active
    /\ e.pc = "isAdmin"
    /\ \E lookupOk \in BOOLEAN :
        IF ~isAdmin(e.uid, lookupOk)
        THEN /\ adminDone' = AdminFinished(e.route, "Bearer", e.uid,
                                 IF lookupOk THEN "notAdmin" ELSE "failed",
                                 AdminError(403))
             /\ adminInflight' = adminInflight (-) One(e)
        ELSE /\ adminInflight' =
                    (adminInflight (-) One(e))
                        (+) One([e EXCEPT !.pc = IF e.route = "make-admin"
                                                 THEN "body" ELSE "query"])
             /\ UNCHANGED adminDone
    /\ UNCHANGED usersDoc

\* users/route.ts lines 36-61 and 105-169: the reads of the two GET routes
\* succeed (the data is returned) or one of them throws (500)
AdminQuery(e) ==
    /\ ~adminDone.active
    /\ e.pc = "query"
    /\ \E readsOk \in BOOLEAN :
        adminDone' = AdminFinished(e.route, "Bearer", e.uid, "admin",
                         IF readsOk THEN AdminData ELSE AdminError(500))
    /\ adminInflight' = adminInflight (-) One(e)
    /\ UNCHANGED usersDoc

\* make-admin lines 37-41: request.json() throws (500), or gives targetUserId
AdminBody(e) ==
    /\ ~adminDone.active
    /\ e.pc = "body"
    /\ \/ /\ adminDone' = AdminFinished(e.route, "Bearer", e.uid, "admin", AdminError(500))
          /\ adminInflight' = adminInflight (-) One(e)
       \/ \E target \in Targets :
            IF target = "none"
            THEN /\ adminDone' = AdminFinished(e.route, "Bearer", e.uid, "admin",
                                     AdminError(400))
                 /\ adminInflight' = adminInflight (-) One(e)
            ELSE /\ adminInflight' =
                        (adminInflight (-) One(e))
                            (+) One([e EXCEPT !.pc = "getUser", !.target = target])
                 /\ UNCHANGED adminDone
    /\ UNCHANGED usersDoc

\* a plausible slip: the result of getUser is not looked at
TargetExists_Always(target, lookupOk) == TRUE

\* make-admin lines 44-46: auth.getUser(targetUserId) resolves: the target has
\* an account and the lookup does not fail
TargetExists(target, lookupOk) == lookupOk /\ target \in AuthUsers

\* make-admin lines 44-48: when getUser throws the answer is 404
AdminGetUser(e) ==
    /\ ~adminDone.active
    /\ e.pc = "getUser"
    /\ \E lookupOk \in BOOLEAN :
        IF ~TargetExists(e.target, lookupOk)
        THEN /\ adminDone' = AdminFinished(e.route, "Bearer", e.uid, "admin",
                                 AdminError(404))
             /\ adminInflight' = adminInflight (-) One(e)
        ELSE /\ adminInflight' =
                    (adminInflight (-) One(e)) (+) One([e EXCEPT !.pc = "set"])
             /\ UNCHANGED adminDone
    /\ UNCHANGED usersDoc

\* make-admin lines 51-60: set({isAdmin: true, ...}, {merge: true}) resolves
\* and the success is returned, or it throws and nothing is written (500)
AdminSet(e) ==
    /\ ~adminDone.active
    /\ e.pc = "set"
    /\ \/ /\ usersDoc' = [usersDoc EXCEPT ![e.target] = "admin"]
          /\ adminDone' = AdminFinished(e.route, "Bearer", e.uid, "admin", AdminGranted)
       \/ /\ adminDone' = AdminFinished(e.route, "Bearer", e.uid, "admin", AdminError(500))
          /\ UNCHANGED usersDoc
    /\ adminInflight' = adminInflight (-) One(e)

\* the response has been observed
AdminReturn ==
    /\ adminDone.active
    /\ adminDone' = NoAdminDone
    /\ UNCHANGED <<usersDoc, adminInflight>>

----------------------------------------------------------------------------
(* AuthProvider, the dashboard page and the login page *)

\* the values onAuthStateChanged delivers: null or a signed-in user
AuthStates == {"null", "alice", "bob"}

Routes == {"/", "/login", "/dashboard"}

\* a plausible slip: the children are rendered whatever loading is
AuthProviderChildren_Always(ld) == TRUE

\* AuthContext.tsx line 94: {!loading && children}
AuthProviderChildren(ld) == ~ld

\* a plausible slip: the test of currentUser is missing
DashboardView_NoUserCheck(authLoading, cu) ==
    IF authLoading THEN "spinner" ELSE "content"

\* dashboard/page.tsx lines 62-83: what Dashboard returns
DashboardView(authLoading, cu) ==
    IF authLoading THEN "spinner"
    ELSE IF cu = "null" THEN "null"
    ELSE "content"

\* the committed output of the tree for the given context value and route
Rendered(cu, ld, rt) ==
    IF AuthProviderChildren(ld) /\ rt = "/dashboard"
    THEN DashboardView(ld, cu)
    ELSE "unmounted"

\* dashboard/page.tsx lines 36-41 and login/page.tsx lines 20-24: the
\* router.push of the mounted page's effect, or "none"
EffectPush(cu, ld, rt) ==
    IF ~AuthProviderChildren(ld) THEN "none"
    ELSE IF rt = "/dashboard" /\ ~ld /\ cu = "null" THEN "/login"
    ELSE IF rt = "/login" /\ cu # "null" THEN "/dashboard"
    ELSE "none"

\* the navigation in progress after the effects have run
AfterEffects(cu, ld, rt, pending) ==
    IF EffectPush(cu, ld, rt) # "none" THEN EffectPush(cu, ld, rt) ELSE pending

AuthInit ==
    /\ currentUser = "null"
    /\ loading = TRUE
    /\ delivered = "never"
    /\ route \in Routes
    /\ navigation = "none"
    /\ childrenShown = AuthProviderChildren(TRUE)
    /\ dashboardView = Rendered("null", TRUE, route)
    /\ loginLoading = FALSE
    /\ loginError = FALSE
    /\ authEvents \in {<<u>> : u \in AuthStates}

\* the auth state Firebase holds: that of the callback it queued last
FirebaseUser ==
    IF authEvents # <<>> THEN authEvents[Len(authEvents)] ELSE delivered

\* AuthContext.tsx lines 72-75: the auth-state callback, with the render and
\* the effects its state updates cause
AuthStateChanged ==
    LET user == Head(authEvents) IN
    /\ authEvents # <<>>
    /\ authEvents' = Tail(authEvents)
    /\ currentUser' = user
    /\ loading' = FALSE
    /\ delivered' = user
    /\ childrenShown' = AuthProviderChildren(FALSE)
    /\ dashboardView' = Rendered(user, FALSE, route)
    /\ navigation' =
          IF user # currentUser \/ loading
          THEN AfterEffects(user, FALSE, route, navigation)
          ELSE navigation
    /\ UNCHANGED <<route, loginLoading, loginError>>

\* the page of the new route is mounted: its render and its effects
ShowPage(rt) ==
    /\ route' = rt
    /\ dashboardView' = Rendered(currentUser, loading, rt)
    /\ navigation' = AfterEffects(currentUser, loading, rt, "none")
    /\ loginLoading' = FALSE
    /\ loginError' = FALSE
    /\ UNCHANGED <<currentUser, loading, delivered, childrenShown, authEvents>>

\* a router.push completes
Navigate ==
    /\ navigation # "none"
    /\ ShowPage(navigation)

\* the user opens another page
UserNavigates(rt) ==
    /\ rt # route
    /\ ShowPage(rt)

\* login/page.tsx lines 27-31 and 66-69: the form is submitted
LoginSubmit ==
    /\ childrenShown
    /\ route = "/login"
    /\ ~loginLoading
    /\ loginError' = FALSE
    /\ loginLoading' = TRUE
    /\ UNCHANGED <<currentUser, loading, delivered, childrenShown, route,
                   navigation, dashboardView, authEvents>>

\* login/page.tsx lines 32-33 and 61-63: login resolves; Firebase has signed
\* the user in and queues the callback
LoginResolved(user) ==
    /\ childrenShown
    /\ route = "/login"
    /\ loginLoading
    /\ user # "null"
    /\ Len(authEvents) < MaxEvents
    /\ authEvents' = IF user # FirebaseUser THEN Append(authEvents, user)
                     ELSE authEvents
    /\ navigation' = "/dashboard"
    /\ loginLoading' = FALSE
    /\ UNCHANGED <<currentUser, loading, delivered, childrenShown, route,
                   dashboardView, loginError>>

\* login/page.tsx lines 34-63: login rejects
LoginRejected ==
    /\ childrenShown
    /\ route = "/login"
    /\ loginLoading
    /\ loginError' = TRUE
    /\ loginLoading' = FALSE
    /\ UNCHANGED <<currentUser, loading, delivered, childrenShown, route,
                   navigation, dashboardView, authEvents>>

\* Header.tsx lines 48-50 and AuthContext.tsx lines 55-57: signOut resolves;
\* Firebase queues the callback
Logout ==
    /\ childrenShown
    /\ currentUser # "null"
    /\ FirebaseUser # "null"
    /\ Len(authEvents) < MaxEvents
    /\ authEvents' = Append(authEvents, "null")
    /\ UNCHANGED <<currentUser, loading, delivered, childrenShown, route,
                   navigation, dashboardView, loginLoading, loginError>>

----------------------------------------------------------------------------
(* The local document heuristic of handleFileUpload and extractPdfMetadata, *)
(* step by step; scores are in hundredths                                   *)

\* the facts about a .doc/.docx file (lines 484-496)
DocInputs ==
    {[kind |-> "doc", small |-> s, suspiciousName |-> n, typeMismatch |-> t,
      hasPdfHeader |-> FALSE, textRead |-> FALSE, creatorAI |-> FALSE,
      producerAI |-> FALSE, missingMost |-> FALSE, text |-> "none"] :
        s \in BOOLEAN, n \in BOOLEAN, t \in BOOLEAN}

\* the facts about a PDF (extractPdfMetadata); the content is read only under
\* a PDF header, with a Creator and a Producer at most two fields are missing,
\* and the OCR text of a PDF is the fixed text of extractTextFromImage
PdfInputs ==
    {[kind |-> "pdf", small |-> s, suspiciousName |-> n, typeMismatch |-> FALSE,
      hasPdfHeader |-> h, textRead |-> r, creatorAI |-> c, producerAI |-> p,
      missingMost |-> m, text |-> "pdfFixed"] :
        s \in BOOLEAN, n \in BOOLEAN, h \in BOOLEAN, r \in BOOLEAN,
        c \in BOOLEAN, p \in BOOLEAN, m \in BOOLEAN}
    \ {x \in [kind : {"pdf"}, small : BOOLEAN, suspiciousName : BOOLEAN,
              typeMismatch : {FALSE}, hasPdfHeader : BOOLEAN, textRead : BOOLEAN,
              creatorAI : BOOLEAN, producerAI : BOOLEAN, missingMost : BOOLEAN,
              text : {"pdfFixed"}] :
          \/ (~x.hasPdfHeader \/ ~x.textRead)
                /\ (x.creatorAI \/ x.producerAI \/ x.missingMost)
          \/ ~x.hasPdfHeader /\ x.textRead
          \/ x.creatorAI /\ x.producerAI /\ x.missingMost}

LocalInputs == DocInputs \cup PdfInputs

\* the anomalies the checks raise for the document
RaisedAnomalies(x) ==
    IF x.kind = "pdf"
    THEN PdfAnomalies(x.small, x.hasPdfHeader, x.suspiciousName, x.textRead,
                      x.creatorAI, x.producerAI, x.missingMost)
    ELSE DocAnomalies(x.small, x.suspiciousName, x.typeMismatch)

\* a plausible slip: every document starts at 0.9
StartScore_AlwaysDoc(kind) == DOC_START_SCORE

\* line 410 and extractPdfMetadata line 1022: the score before any penalty
StartScore(kind) == IF kind = "pdf" THEN PDF_START_SCORE ELSE DOC_START_SCORE

\* lines 503-506, 1023-1026, 1076-1092 and 436: what each anomaly subtracts
Penalty(anomaly) ==
    CASE anomaly = "smallDoc" -> 30
      [] anomaly = "suspiciousName" -> 20
      [] anomaly = "extensionMismatch" -> 40
      [] anomaly = "smallPdf" -> 20
      [] anomaly = "noPdfHeader" -> 50
      [] anomaly = "creatorAI" -> 30
      [] anomaly = "producerAI" -> 30
      [] anomaly = "missingMetadata" -> 20
      [] anomaly = "fakeTerms" -> 20
      [] anomaly = "notValidDisclaimer" -> 20

\* the penalties of a set of anomalies, subtracted one after the other
RECURSIVE Penalties(_)
Penalties(S) ==
    IF S = {} THEN 0
    ELSE LET a == CHOOSE b \in S : TRUE IN Penalty(a) + Penalties(S \ {a})

\* a plausible slip: the lower limit is missing
Clamp_NoFloor(score) == IF score > MAX_SCORE THEN MAX_SCORE ELSE score

\* lines 517 and 1106: Math.max(0.1, Math.min(1, confidenceScore))
Clamp(score) ==
    IF score < MIN_SCORE THEN MIN_SCORE
    ELSE IF score > MAX_SCORE THEN MAX_SCORE
    ELSE score

\* the substrings lines 521-526 look for, by the anomaly texts that hold one:
\* "File does not have a valid PDF header", "File extension doesn't match the
\* actual file type" and "Contains terms like 'fake', 'copy', 'specimen'"
CriticalMarkers(anomaly) ==
    CASE anomaly = "noPdfHeader" -> {"does not have a valid PDF header"}
      [] anomaly = "extensionMismatch" -> {"File extension doesn't match"}
      [] anomaly = "fakeTerms" -> {"fake", "specimen"}
      [] OTHER -> {}

\* a plausible slip: every anomaly counts as critical
AnyCritical_EveryAnomaly(S) == S # {}

\* lines 521-526: anomalies.some(anomaly => anomaly.includes(...) || ...)
AnyCritical(S) == \E a \in S : CriticalMarkers(a) # {}

NoLocalVerdict == [stored |-> FALSE, isLikelyGenuine |-> FALSE,
                   isLikelyAiGenerated |-> FALSE, moderationStatus |-> "none",
                   confidenceScore |-> 0]

LocalInit ==
    /\ localInput \in LocalInputs
    /\ localPc = "input"
    /\ detectedAnomalies = {}
    /\ confidenceScore = 0
    /\ localVerdict = NoLocalVerdict

\* lines 498-506, or extractPdfMetadata lines 1014-1092: the anomalies are
\* collected and their penalties subtracted from the starting score
LocalChecks ==
    /\ localPc = "input"
    /\ detectedAnomalies' = RaisedAnomalies(localInput)
    /\ confidenceScore' =
          StartScore(localInput.kind) - Penalties(RaisedAnomalies(localInput))
    /\ localPc' = "raw"
    /\ UNCHANGED <<localInput, localVerdict>>

\* extractPdfMetadata line 1106 for a PDF, line 517 for a .doc/.docx
LocalClamp ==
    /\ localPc = "raw"
    /\ confidenceScore' = Clamp(confidenceScore)
    /\ localPc' = IF localInput.kind = "pdf" THEN "clamped" ELSE "final"
    /\ UNCHANGED <<localInput, detectedAnomalies, localVerdict>>

\* lines 424-439 and, after the request has failed, line 517: the patterns
\* found in the text of a PDF are added and the score is limited again
LocalTextPatterns ==
    /\ localPc = "clamped"
    /\ detectedAnomalies' = detectedAnomalies \cup TextAnomalies(localInput.text)
    /\ confidenceScore' =
          Clamp(confidenceScore - Penalties(TextAnomalies(localInput.text)))
    /\ localPc' = "final"
    /\ UNCHANGED <<localInput, localVerdict>>

\* lines 519-557: the verdict, stored with the file
LocalStore ==
    /\ localPc = "final"
    /\ localVerdict' =
          [stored |-> TRUE,
           isLikelyGenuine |-> ~AnyCritical(detectedAnomalies),
           isLikelyAiGenerated |-> AnyCritical(detectedAnomalies),
           moderationStatus |->
               IF AnyCritical(detectedAnomalies) THEN "flagged" ELSE "safe",
           confidenceScore |-> confidenceScore]
    /\ localPc' = "stored"
    /\ UNCHANGED <<localInput, detectedAnomalies, confidenceScore>>

----------------------------------------------------------------------------
(* The camera of DocumentUploader: handleCameraToggle, its 10 s timer and *)
(* stopCameraStream                                                       *)

\* the messages setCameraError is given
CameraErrors ==
    {"null",
     "Camera initialization timed out. Please try again.",
     "Camera access was denied. Please check your browser permissions.",
     "No camera found on your device.",
     "Camera is not supported in your browser.",
     "Failed to access camera",
     "Camera element not found. Please refresh the page and try again.",
     "Failed to start camera. Please try again or use a different browser."}

\* what getUserMedia rejects with, by the tests of lines 920-929 its message
\* passes: a denial whose message contains 'Permission denied' or
\* 'NotAllowed', a denial whose message contains neither, a missing device,
\* anything else
Rejections == {"deniedMatching", "deniedOther", "notFound", "other"}

\* lines 918-929: the message of the catch block
AccessErrorMessage(rejection) ==
    IF rejection = "deniedMatching"
    THEN "Camera access was denied. Please check your browser permissions."
    ELSE IF rejection = "notFound" THEN "No camera found on your device."
    ELSE IF rejection = "notSupported" THEN "Camera is not supported in your browser."
    ELSE "Failed to access camera"

\* lines 1396-1404: the messages rendered under the camera button
CameraMessagesShown(denied, error) ==
    (IF denied
     THEN {"Camera permission denied. Please allow camera access in your browser settings."}
     ELSE {})
        \cup (IF error # "null" /\ ~denied THEN {error} ELSE {})

\* the timer of lines 786-792 with the state its callback closed over
InitTimer(initializing, active) ==
    [set |-> TRUE, pending |-> TRUE, cameraInitializing |-> initializing,
     cameraActive |-> active]

\* initTimeoutRef.current is null
NoTimer == [set |-> FALSE, pending |-> FALSE, cameraInitializing |-> FALSE,
            cameraActive |-> FALSE]

CameraCall(pc) == [pc |-> pc]

CameraInit ==
    /\ cameraActive = FALSE
    /\ cameraPermissionDenied = FALSE
    /\ cameraInitializing = FALSE
    /\ cameraError = "null"
    /\ streamRef = "null"
    /\ initTimeoutRef = NoTimer
    /\ cameraCalls = EmptyBag

\* stopCameraStream, lines 733-759, after the error (if any) has been set
stopCameraStream(error, denied) ==
    /\ streamRef' = "null"
    /\ initTimeoutRef' = NoTimer
    /\ cameraActive' = FALSE
    /\ cameraInitializing' = FALSE
    /\ cameraError' = error
    /\ cameraPermissionDenied' = denied

\* lines 769-797: the button is clicked; the handler runs to its first await.
\* Its closure holds the state of the render the click happened in
handleCameraToggle ==
    IF cameraActive
    THEN /\ stopCameraStream("null", cameraPermissionDenied)
         /\ UNCHANGED cameraCalls
    ELSE /\ BagCardinality(cameraCalls) < MaxCameraCalls
         /\ \E supported \in BOOLEAN :
              IF supported
              THEN /\ cameraError' = "null"
                   /\ cameraInitializing' = TRUE
                   /\ cameraPermissionDenied' = FALSE
                   /\ initTimeoutRef' = InitTimer(cameraInitializing, cameraActive)
                   /\ cameraCalls' = cameraCalls (+) One(CameraCall("getUserMedia"))
                   /\ UNCHANGED <<cameraActive, streamRef>>
              ELSE /\ stopCameraStream(AccessErrorMessage("notSupported"), FALSE)
                   /\ UNCHANGED cameraCalls

\* lines 786-792: the timer fires after 10 s; its test reads the closure
InitTimeout ==
    /\ initTimeoutRef.pending
    /\ IF initTimeoutRef.cameraInitializing /\ ~initTimeoutRef.cameraActive
       THEN stopCameraStream("Camera initialization timed out. Please try again.",
                             cameraPermissionDenied)
       ELSE /\ initTimeoutRef' = [initTimeoutRef EXCEPT !.pending = FALSE]
            /\ UNCHANGED <<cameraActive, cameraPermissionDenied, cameraInitializing,
                           cameraError, streamRef>>
    /\ UNCHANGED cameraCalls

\* lines 816-834: getUserMedia resolves; a stream without video tracks goes
\* to the catch block
GetUserMediaResolves(c) ==
    /\ c.pc = "getUserMedia"
    /\ \E tracks \in BOOLEAN :
         IF tracks
         THEN /\ streamRef' = "live"
              /\ cameraCalls' = (cameraCalls (-) One(c)) (+) One(CameraCall("attach"))
              /\ UNCHANGED <<cameraActive, cameraPermissionDenied, cameraInitializing,
                             cameraError, initTimeoutRef>>
         ELSE /\ stopCameraStream(AccessErrorMessage("other"), cameraPermissionDenied)
              /\ cameraCalls' = cameraCalls (-) One(c)

\* lines 916-932: getUserMedia rejects
GetUserMediaRejects(c, rejection) ==
    /\ c.pc = "getUserMedia"
    /\ stopCameraStream(AccessErrorMessage(rejection),
                        rejection = "deniedMatching" \/ cameraPermissionDenied)
    /\ cameraCalls' = cameraCalls (-) One(c)

\* lines 834-862: after 200 ms the stream is attached to the video element,
\* which the component always renders
AttachStream(c) ==
    /\ c.pc = "attach"
    /\ cameraCalls' = (cameraCalls (-) One(c)) (+) One(CameraCall("play"))
    /\ UNCHANGED <<cameraActive, cameraPermissionDenied, cameraInitializing,
                   cameraError, streamRef, initTimeoutRef>>

\* lines 862-884 and 908: after 300 ms play() resolves (a timer of 300 ms is
\* set) or rejects (a timer of 1000 ms is set)
PlayVideo(c) ==
    /\ c.pc = "play"
    /\ \E next \in {"activate", "retry"} :
         cameraCalls' = (cameraCalls (-) One(c)) (+) One(CameraCall(next))
    /\ UNCHANGED <<cameraActive, cameraPermissionDenied, cameraInitializing,
                   cameraError, streamRef, initTimeoutRef>>

\* lines 870-879 and 890-897: the camera is active and the timer cleared
CameraActivated ==
    /\ cameraActive' = TRUE
    /\ cameraInitializing' = FALSE
    /\ initTimeoutRef' = NoTimer
    /\ UNCHANGED <<cameraPermissionDenied, cameraError, streamRef>>

\* lines 870-879: the 300 ms timer fires
ActivateCamera(c) ==
    /\ c.pc = "activate"
    /\ CameraActivated
    /\ cameraCalls' = cameraCalls (-) One(c)

\* lines 884-887 and 903-907: the 1000 ms timer fires; without a stream the
\* retry gives up
RetryPlay(c) ==
    /\ c.pc = "retry"
    /\ IF streamRef = "live"
       THEN /\ cameraCalls' = (cameraCalls (-) One(c)) (+) One(CameraCall("retryPlay"))
            /\ UNCHANGED <<cameraActive, cameraPermissionDenied, cameraInitializing,
                           cameraError, streamRef, initTimeoutRef>>
       ELSE /\ stopCameraStream("Camera element not found. Please refresh the page and try again.",
                                cameraPermissionDenied)
            /\ cameraCalls' = cameraCalls (-) One(c)

\* lines 887-902: the second play() resolves or rejects
RetryPlayed(c) ==
    /\ c.pc = "retryPlay"
    /\ \/ CameraActivated
       \/ stopCameraStream("Failed to start camera. Please try again or use a different browser.",
                           cameraPermissionDenied)
    /\ cameraCalls' = cameraCalls (-) One(c)

----------------------------------------------------------------------------
(* AdminLayout: the admin check of app/admin/layout.tsx. The layout is a   *)
(* child of AuthProvider, so it is mounted only when authLoading is false. *)

\* the users /api/admin/users answers OK for
LayoutAdmins == {"alice"}

\* layout.tsx lines 59-80: what AdminLayout returns
AdminLayoutView(authLoading, ld, admin) ==
    IF authLoading \/ ld THEN "spinner"
    ELSE IF ~admin THEN "null"
    ELSE "children"

\* what is on the screen
LayoutShown ==
    IF layoutMounted THEN AdminLayoutView(FALSE, layoutLoading, layoutIsAdmin)
    ELSE "unmounted"

LayoutCheck(uid, pc) == [uid |-> uid, pc |-> pc]

\* lines 20-57: the effect for the given user: without a user it pushes
\* '/login', otherwise it starts checkAdminStatus
LayoutEffect(user) ==
    IF user = "null"
    THEN /\ layoutPush' = "/login"
         /\ UNCHANGED layoutChecks
    ELSE /\ layoutChecks' = layoutChecks (+) One(LayoutCheck(user, "getIdToken"))
         /\ UNCHANGED layoutPush

\* lines 17-18 and 20-57: the layout is mounted and its effect runs
LayoutMounts(user) ==
    /\ layoutMounted' = TRUE
    /\ layoutUser' = user
    /\ layoutIsAdmin' = FALSE
    /\ layoutLoading' = TRUE
    /\ layoutPassed' = {}
    /\ LayoutEffect(user)

LayoutInit ==
    /\ layoutMounted = TRUE
    /\ layoutUser \in AuthStates
    /\ layoutIsAdmin = FALSE
    /\ layoutLoading = TRUE
    /\ layoutPassed = {}
    /\ layoutPush = IF layoutUser = "null" THEN "/login" ELSE "none"
    /\ layoutChecks = IF layoutUser = "null" THEN EmptyBag
                      ELSE One(LayoutCheck(layoutUser, "getIdToken"))

\* a page under /admin is opened again
LayoutOpened ==
    /\ ~layoutMounted
    /\ BagCardinality(layoutChecks) < MaxLayoutChecks
    /\ LayoutMounts(layoutUser)

\* the auth state changes (a sign-out, or another user signs in): the layout
\* renders again and the effect runs, line 57
LayoutAuthChanged(user) ==
    /\ user # layoutUser
    /\ layoutUser' = user
    /\ IF layoutMounted
       THEN /\ BagCardinality(layoutChecks) < MaxLayoutChecks
            /\ LayoutEffect(user)
       ELSE UNCHANGED <<layoutPush, layoutChecks>>
    /\ UNCHANGED <<layoutMounted, layoutIsAdmin, layoutLoading, layoutPassed>>

\* lines 47-52: the catch and finally blocks, and the else branch of line 43
LayoutCheckFailed(c) ==
    /\ layoutPush' = "/dashboard"
    /\ layoutLoading' = IF layoutMounted THEN FALSE ELSE layoutLoading
    /\ layoutChecks' = layoutChecks (-) One(c)
    /\ UNCHANGED <<layoutMounted, layoutUser, layoutIsAdmin, layoutPassed>>

\* line 32: getIdToken resolves or throws
LayoutGetIdToken(c) ==
    /\ c.pc = "getIdToken"
    /\ \/ /\ layoutChecks' = (layoutChecks (-) One(c)) (+) One(LayoutCheck(c.uid, "fetch"))
          /\ UNCHANGED <<layoutMounted, layoutUser, layoutIsAdmin, layoutLoading,
                         layoutPush, layoutPassed>>
       \/ LayoutCheckFailed(c)

\* lines 35-52: the request is answered OK, answered with an error, or fails
LayoutFetchAnswers(c) ==
    /\ c.pc = "fetch"
    /\ \/ /\ c.uid \in LayoutAdmins
          /\ layoutIsAdmin' = IF layoutMounted THEN TRUE ELSE layoutIsAdmin
          /\ layoutLoading' = IF layoutMounted THEN FALSE ELSE layoutLoading
          /\ layoutPassed' = IF layoutMounted THEN layoutPassed \cup {c.uid}
                             ELSE layoutPassed
          /\ layoutChecks' = layoutChecks (-) One(c)
          /\ UNCHANGED <<layoutMounted, layoutUser, layoutPush>>
       \/ LayoutCheckFailed(c)

\* a router.push completes: the layout is unmounted and its state is gone
LayoutNavigates ==
    /\ layoutPush # "none"
    /\ layoutPush' = "none"
    /\ layoutMounted' = FALSE
    /\ layoutIsAdmin' = FALSE
    /\ layoutLoading' = TRUE
    /\ layoutPassed' = {}
    /\ UNCHANGED <<layoutUser, layoutChecks>>

----------------------------------------------------------------------------
(* The register route (POST) and the users collection of the User model *)

\* uid and email of a request body: absent, or one of two values
RegUids == {"none", "u1", "u2"}

RegEmails == {"none", "a@x", "b@x"}

\* displayName and photoURL of a request body: absent or empty (""), or given
RegNames == {"", "Ann"}

RegPhotos == {"", "p.png"}

RegisterBodies ==
    [uid : RegUids, email : RegEmails, displayName : RegNames, photoURL : RegPhotos]

\* a document of the users collection
UserDoc(uid, email, displayName, photoURL, now) ==
    [uid |-> uid, email |-> email, displayName |-> displayName,
     photoURL |-> photoURL, createdAt |-> now, lastLoginAt |-> now]

\* a plausible slip: the schema declares no unique index
UniqueIndexesAllow_NoIndex(coll, doc) == TRUE

\* userSchema, lines 102-111: uid and email are 'unique: true', so the
\* database refuses a document whose uid or email another document has
UniqueIndexesAllow(coll, doc) ==
    \A k \in 1..Len(coll) : coll[k].uid # doc.uid /\ coll[k].email # doc.email

\* the position of the document findOne({ uid }) returns, 0 for null
FindOne(coll, uid) ==
    IF \E k \in 1..Len(coll) : coll[k].uid = uid
    THEN CHOOSE k \in 1..Len(coll) :
            coll[k].uid = uid /\ \A j \in 1..(k - 1) : coll[j].uid # uid
    ELSE 0

\* lines 96-100: the existing document with lastLoginAt set, and displayName
\* and photoURL replaced when the body gives them
LoginRecorded(doc, body, now) ==
    [doc EXCEPT !.lastLoginAt = now,
                !.displayName = IF body.displayName # "" THEN body.displayName ELSE @,
                !.photoURL = IF body.photoURL # "" THEN body.photoURL ELSE @]

NoRegisterDone ==
    [active |-> FALSE, status |-> 0, message |-> "none", cause |-> "none",
     body |-> [uid |-> "none", email |-> "none", displayName |-> "", photoURL |-> ""],
     user |-> UserDoc("none", "none", "", "", 0)]

RegisterFinished(status, message, cause, body, user) ==
    [active |-> TRUE, status |-> status, message |-> message, cause |-> cause,
     body |-> body, user |-> user]

\* the catch block, lines 124-131
RegisterFailed(cause, body) ==
    RegisterFinished(500, "Failed to register user", cause, body, NoRegisterDone.user)

RegisterWaiting(pc, body, at, user) == [pc |-> pc, body |-> body, at |-> at, user |-> user]

RegisterInit ==
    /\ userColl = <<>>
    /\ registerInflight = EmptyBag
    /\ registerDone = NoRegisterDone
    /\ registerClock = 0

\* lines 75-90: dbConnect and request.json() resolve or throw (500); a body
\* without uid or email is answered 400; otherwise findOne is awaited
RegisterStart ==
    /\ ~registerDone.active
    /\ registerClock < MaxRegistrations
    /\ BagCardinality(registerInflight) < MaxRegisterReq
    /\ registerClock' = registerClock + 1
    /\ \E body \in RegisterBodies, connected \in BOOLEAN :
        IF ~connected
        THEN /\ registerDone' = RegisterFailed("connect", body)
             /\ UNCHANGED registerInflight
        ELSE IF body.uid = "none" \/ body.email = "none"
        THEN /\ registerDone' =
                    RegisterFinished(400, "Missing required fields", "none", body,
                                     NoRegisterDone.user)
             /\ UNCHANGED registerInflight
        ELSE /\ registerInflight' = registerInflight
                    (+) One(RegisterWaiting("findOne", body, 0, NoRegisterDone.user))
             /\ UNCHANGED registerDone
    /\ UNCHANGED userColl

\* lines 93-100 and 111-117: findOne resolves or throws (500); with a
\* document the handler changes its copy and awaits save(), without one it
\* builds the new document and awaits save()
RegisterFindOne(e) ==
    /\ ~registerDone.active
    /\ e.pc = "findOne"
    /\ \E readOk \in BOOLEAN :
        IF ~readOk
        THEN /\ registerDone' = RegisterFailed("findOne", e.body)
             /\ registerInflight' = registerInflight (-) One(e)
        ELSE /\ UNCHANGED registerDone
             /\ LET k == FindOne(userColl, e.body.uid) IN
                registerInflight' = (registerInflight (-) One(e)) (+) One(
                    IF k # 0
                    THEN RegisterWaiting("saveExisting", e.body, k,
                            LoginRecorded(userColl[k], e.body, registerClock))
                    ELSE RegisterWaiting("saveNew", e.body, 0,
                            UserDoc(e.body.uid, e.body.email, e.body.displayName,
                                    e.body.photoURL, registerClock)))
    /\ UNCHANGED <<userColl, registerClock>>

\* lines 100-106: save() of the existing document writes the changed fields
\* to the document with its _id, or throws (500)
RegisterSaveExisting(e) ==
    /\ ~registerDone.active
    /\ e.pc = "saveExisting"
    /\ \/ /\ userColl' = [userColl EXCEPT ![e.at] =
                 [@ EXCEPT !.lastLoginAt = e.user.lastLoginAt,
                           !.displayName = IF e.body.displayName # ""
                                           THEN e.body.displayName ELSE @,
                           !.photoURL = IF e.body.photoURL # ""
                                        THEN e.body.photoURL ELSE @]]
          /\ registerDone' =
                RegisterFinished(200, "User login recorded", "none", e.body, e.user)
       \/ /\ registerDone' = RegisterFailed("save", e.body)
          /\ UNCHANGED userColl
    /\ registerInflight' = registerInflight (-) One(e)
    /\ UNCHANGED registerClock

\* lines 117-123: save() of the new document inserts it, or throws (500):
\* for a duplicate key, or for another failure
RegisterSaveNew(e) ==
    /\ ~registerDone.active
    /\ e.pc = "saveNew"
    /\ \/ IF UniqueIndexesAllow(userColl, e.user)
          THEN /\ userColl' = Append(userColl, e.user)
               /\ registerDone' =
                     RegisterFinished(200, "User registered successfully", "none",
                                      e.body, e.user)
          ELSE /\ registerDone' = RegisterFailed("duplicate key", e.body)
               /\ UNCHANGED userColl
       \/ /\ registerDone' = RegisterFailed("save", e.body)
          /\ UNCHANGED userColl
    /\ registerInflight' = registerInflight (-) One(e)
    /\ UNCHANGED registerClock

\* the response has been observed
RegisterReturn ==
    /\ registerDone.active
    /\ registerDone' = NoRegisterDone
    /\ UNCHANGED <<userColl, registerInflight, registerClock>>

----------------------------------------------------------------------------
(* GET admin/documents, lines 105-169: the paginated list of documents *)

DocIds == 1..MaxDocs

\* the values of createdAt; two documents may have the same
DocTimes == {1, 2}

\* the userId filter of a request: absent, or a user
DocFilters == {"none"} \cup AuthUsers

\* the collections: every id is that of at most one document
DocCollections ==
    UNION {{ {[id |-> i, userId |-> owner[i], createdAt |-> at[i]] : i \in ids} :
                owner \in [ids -> AuthUsers], at \in [ids -> DocTimes]} :
           ids \in SUBSET DocIds}

\* lines 113-118: the documents the query is about
Matching(coll, userIdFilter) ==
    IF userIdFilter = "none" THEN coll
    ELSE {d \in coll : d.userId = userIdFilter}

\* orderBy('createdAt', 'desc'): later documents first, and among documents
\* of the same createdAt the larger document id first
ComesBefore(d, e) ==
    d.createdAt > e.createdAt \/ (d.createdAt = e.createdAt /\ d.id > e.id)

\* line 121, orderBy: the documents in the order of the query
RECURSIVE OrderByCreatedAtDesc(_)
OrderByCreatedAtDesc(S) ==
    IF S = {} THEN <<>>
    ELSE LET first == CHOOSE d \in S : \A e \in S \ {d} : ComesBefore(d, e)
         IN  <<first>> \o OrderByCreatedAtDesc(S \ {first})

\* a plausible slip: the offset of the page after the requested one
Offset_OffByOne(page, limit) == page * limit

\* line 110: const offset = (page - 1) * limit
Offset(page, limit) == (page - 1) * limit

\* line 121, limit(limit).offset(offset): the part of the ordered documents
\* the query returns
LimitOffset(q, limit, offset) ==
    SubSeq(q, offset + 1, IF offset + limit < Len(q) THEN offset + limit ELSE Len(q))

\* line 159: Math.ceil(totalCount / limit)
TotalPages(totalCount, limit) == (totalCount + limit - 1) \div limit

NoDocRequest == [userId |-> "none", limit |-> 1, page |-> 1]

NoDocResponse ==
    [status |-> 0, documents |-> <<>>,
     pagination |-> [total |-> 0, pages |-> 0, currentPage |-> 0, limit |-> 0]]

\* what has been returned by the pages requested one after the other from
\* page 1 with the same filter and limit; walking is FALSE when the requests
\* were not such a walk
NoWalk == [walking |-> FALSE, ids |-> <<>>, last |-> 0]

DocumentsInit ==
    /\ docColl \in DocCollections
    /\ docRequest = NoDocRequest
    /\ docPc = "idle"
    /\ docResponse = NoDocResponse
    /\ docSeen = NoWalk

\* lines 105-124: the parameters are read and the query is sent
DocumentsGet(userIdFilter, limit, page) ==
    /\ docPc = "idle"
    /\ docRequest' = [userId |-> userIdFilter, limit |-> limit, page |-> page]
    /\ docPc' = "query"
    /\ docSeen' =
          IF page = 1 THEN [walking |-> TRUE, ids |-> <<>>, last |-> 0]
          ELSE IF docSeen.walking /\ page = docSeen.last + 1
                  /\ userIdFilter = docRequest.userId /\ limit = docRequest.limit
               THEN docSeen
               ELSE NoWalk
    /\ UNCHANGED <<docColl, docResponse>>

\* lines 170-175: the catch block
DocumentsFailed ==
    /\ docResponse' = [NoDocResponse EXCEPT !.status = 500]
    /\ docPc' = "idle"
    /\ docSeen' = NoWalk
    /\ UNCHANGED <<docColl, docRequest>>

\* lines 124-151: the query resolves with its documents (the getUser of each
\* document only adds the user's data), or throws
DocumentsQueried ==
    /\ docPc = "query"
    /\ \/ /\ docResponse' =
                [NoDocResponse EXCEPT !.documents =
                    LimitOffset(
                        OrderByCreatedAtDesc(Matching(docColl, docRequest.userId)),
                        docRequest.limit,
                        Offset(docRequest.page, docRequest.limit))]
          /\ docPc' = "count"
          /\ UNCHANGED <<docColl, docRequest, docSeen>>
       \/ DocumentsFailed

\* lines 153-169: the count resolves and the response is returned, or throws
DocumentsCounted ==
    /\ docPc = "count"
    /\ \/ LET totalCount == Cardinality(Matching(docColl, docRequest.userId)) IN
          /\ docResponse' =
                [docResponse EXCEPT !.status = 200,
                    !.pagination = [total |-> totalCount,
                                    pages |-> TotalPages(totalCount, docRequest.limit),
                                    currentPage |-> docRequest.page,
                                    limit |-> docRequest.limit]]
          /\ docPc' = "idle"
          /\ docSeen' =
                IF docSeen.walking
                THEN [walking |-> TRUE,
                      ids |-> docSeen.ids \o [k \in 1..Len(docResponse.documents) |->
                                                 docResponse.documents[k].id],
                      last |-> docRequest.page]
                ELSE docSeen
          /\ UNCHANGED <<docColl, docRequest>>
       \/ DocumentsFailed

----------------------------------------------------------------------------
(* Specifications: one per subsystem; the others rest *)

ServerAtRest ==
    /\ monitor = "off"
    /\ GEMINI_API_KEY = FALSE
    /\ genAI = FALSE
    /\ apiCallsInLastMinute = 0
    /\ lastResetTime = 0
    /\ clock = 0
    /\ inflight = EmptyBag
    /\ done = NoDone
    /\ fwdRecent = [i \in 1..WindowTicks |-> 0]
    /\ windowFwd = 0

AdminAtRest ==
    /\ usersDoc = [u \in AuthUsers |-> "missing"]
    /\ adminInflight = EmptyBag
    /\ adminDone = NoAdminDone

AuthAtRest ==
    /\ currentUser = "null"
    /\ loading = TRUE
    /\ delivered = "never"
    /\ route = "/"
    /\ navigation = "none"
    /\ childrenShown = FALSE
    /\ dashboardView = "unmounted"
    /\ loginLoading = FALSE
    /\ loginError = FALSE
    /\ authEvents = <<>>

LocalAtRest ==
    /\ localInput = CHOOSE x \in DocInputs : ~x.small /\ ~x.suspiciousName /\ ~x.typeMismatch
    /\ localPc = "stored"
    /\ detectedAnomalies = {}
    /\ confidenceScore = DOC_START_SCORE
    /\ localVerdict = [NoLocalVerdict EXCEPT !.stored = TRUE, !.isLikelyGenuine = TRUE,
                                             !.moderationStatus = "safe",
                                             !.confidenceScore = DOC_START_SCORE]

LayoutAtRest ==
    /\ layoutMounted = FALSE
    /\ layoutUser = "null"
    /\ layoutIsAdmin = FALSE
    /\ layoutLoading = TRUE
    /\ layoutPush = "none"
    /\ layoutChecks = EmptyBag
    /\ layoutPassed = {}

DocumentsAtRest ==
    /\ docColl = {}
    /\ docRequest = NoDocRequest
    /\ docPc = "idle"
    /\ docResponse = NoDocResponse
    /\ docSeen = NoWalk

ServerNext ==
    \/ PostStart /\ UNCHANGED <<uploaderVars, adminVars, authVars, localVars, cameraVars, layoutVars, registerVars, documentsVars>>
    \/ \E e \in BagToSet(inflight) :
            PostFormData(e) /\ UNCHANGED <<uploaderVars, adminVars, authVars, localVars, cameraVars, layoutVars, registerVars, documentsVars>>
    \/ \E e \in BagToSet(inflight) :
            PostModelDone(e) /\ UNCHANGED <<uploaderVars, adminVars, authVars, localVars, cameraVars, layoutVars, registerVars, documentsVars>>
    \/ PostReturn /\ UNCHANGED <<uploaderVars, adminVars, authVars, localVars, cameraVars, layoutVars, registerVars, documentsVars>>
    \/ Tick /\ UNCHANGED <<uploaderVars, adminVars, authVars, localVars, cameraVars, layoutVars, registerVars, documentsVars>>

UploaderNext ==
    \/ ModelLoaded /\ UNCHANGED <<serverVars, adminVars, authVars, localVars, cameraVars, layoutVars, registerVars, documentsVars>>
    \/ ModelLoadFailed /\ UNCHANGED <<serverVars, adminVars, authVars, localVars, cameraVars, layoutVars, registerVars, documentsVars>>
    \/ \E batch \in SeqsUpTo(FileInputs, MaxFiles) :
            StartUpload(batch) /\ UNCHANGED <<serverVars, adminVars, authVars, localVars, cameraVars, layoutVars, registerVars, documentsVars>>
    \/ BeginFile /\ UNCHANGED <<serverVars, adminVars, authVars, localVars, cameraVars, layoutVars, registerVars, documentsVars>>
    \/ OcrImageLoad /\ UNCHANGED <<serverVars, adminVars, authVars, localVars, cameraVars, layoutVars, registerVars, documentsVars>>
    \/ OcrRecognize /\ UNCHANGED <<serverVars, adminVars, authVars, localVars, cameraVars, layoutVars, registerVars, documentsVars>>
    \/ FeatureImageLoad /\ UNCHANGED <<serverVars, adminVars, authVars, localVars, cameraVars, layoutVars, registerVars, documentsVars>>
    \/ Classify /\ UNCHANGED <<serverVars, adminVars, authVars, localVars, cameraVars, layoutVars, registerVars, documentsVars>>
    \/ PdfHeaderRead /\ UNCHANGED <<serverVars, adminVars, authVars, localVars, cameraVars, layoutVars, registerVars, documentsVars>>
    \/ PdfTextRead /\ UNCHANGED <<serverVars, adminVars, authVars, localVars, cameraVars, layoutVars, registerVars, documentsVars>>
    \/ FetchFails /\ UNCHANGED <<serverVars, adminVars, authVars, localVars, cameraVars, layoutVars, registerVars, documentsVars>>
    \/ FetchAnswers /\ UNCHANGED <<serverVars, adminVars, authVars, localVars, cameraVars, layoutVars, registerVars, documentsVars>>
    \/ deleteFile /\ UNCHANGED <<serverVars, adminVars, authVars, localVars, cameraVars, layoutVars, registerVars, documentsVars>>

AdminNext ==
    \/ AdminStart /\ UNCHANGED <<serverVars, uploaderVars, authVars, localVars, cameraVars, layoutVars, registerVars, documentsVars>>
    \/ \E e \in BagToSet(adminInflight) :
            AdminVerifyIdToken(e) /\ UNCHANGED <<serverVars, uploaderVars, authVars, localVars, cameraVars, layoutVars, registerVars, documentsVars>>
    \/ \E e \in BagToSet(adminInflight) :
            AdminCheck(e) /\ UNCHANGED <<serverVars, uploaderVars, authVars, localVars, cameraVars, layoutVars, registerVars, documentsVars>>
    \/ \E e \in BagToSet(adminInflight) :
            AdminQuery(e) /\ UNCHANGED <<serverVars, uploaderVars, authVars, localVars, cameraVars, layoutVars, registerVars, documentsVars>>
    \/ \E e \in BagToSet(adminInflight) :
            AdminBody(e) /\ UNCHANGED <<serverVars, uploaderVars, authVars, localVars, cameraVars, layoutVars, registerVars, documentsVars>>
    \/ \E e \in BagToSet(adminInflight) :
            AdminGetUser(e) /\ UNCHANGED <<serverVars, uploaderVars, authVars, localVars, cameraVars, layoutVars, registerVars, documentsVars>>
    \/ \E e \in BagToSet(adminInflight) :
            AdminSet(e) /\ UNCHANGED <<serverVars, uploaderVars, authVars, localVars, cameraVars, layoutVars, registerVars, documentsVars>>
    \/ AdminReturn /\ UNCHANGED <<serverVars, uploaderVars, authVars, localVars, cameraVars, layoutVars, registerVars, documentsVars>>

AuthNext ==
    \/ AuthStateChanged /\ UNCHANGED <<serverVars, uploaderVars, adminVars, localVars, cameraVars, layoutVars, registerVars, documentsVars>>
    \/ Navigate /\ UNCHANGED <<serverVars, uploaderVars, adminVars, localVars, cameraVars, layoutVars, registerVars, documentsVars>>
    \/ \E rt \in Routes :
            UserNavigates(rt) /\ UNCHANGED <<serverVars, uploaderVars, adminVars, localVars, cameraVars, layoutVars, registerVars, documentsVars>>
    \/ LoginSubmit /\ UNCHANGED <<serverVars, uploaderVars, adminVars, localVars, cameraVars, layoutVars, registerVars, documentsVars>>
    \/ \E user \in AuthStates :
            LoginResolved(user) /\ UNCHANGED <<serverVars, uploaderVars, adminVars, localVars, cameraVars, layoutVars, registerVars, documentsVars>>
    \/ LoginRejected /\ UNCHANGED <<serverVars, uploaderVars, adminVars, localVars, cameraVars, layoutVars, registerVars, documentsVars>>
    \/ Logout /\ UNCHANGED <<serverVars, uploaderVars, adminVars, localVars, cameraVars, layoutVars, registerVars, documentsVars>>

LocalNext ==
    \/ LocalChecks /\ UNCHANGED <<serverVars, uploaderVars, adminVars, authVars, cameraVars, layoutVars, registerVars, documentsVars>>
    \/ LocalClamp /\ UNCHANGED <<serverVars, uploaderVars, adminVars, authVars, cameraVars, layoutVars, registerVars, documentsVars>>
    \/ LocalTextPatterns /\ UNCHANGED <<serverVars, uploaderVars, adminVars, authVars, cameraVars, layoutVars, registerVars, documentsVars>>
    \/ LocalStore /\ UNCHANGED <<serverVars, uploaderVars, adminVars, authVars, cameraVars, layoutVars, registerVars, documentsVars>>

CameraNext ==
    \/ handleCameraToggle /\ UNCHANGED <<serverVars, uploaderVars, adminVars, authVars, localVars, layoutVars, registerVars, documentsVars>>
    \/ InitTimeout /\ UNCHANGED <<serverVars, uploaderVars, adminVars, authVars, localVars, layoutVars, registerVars, documentsVars>>
    \/ \E c \in BagToSet(cameraCalls) :
            GetUserMediaResolves(c) /\ UNCHANGED <<serverVars, uploaderVars, adminVars, authVars, localVars, layoutVars, registerVars, documentsVars>>
    \/ \E c \in BagToSet(cameraCalls), rejection \in Rejections :
            GetUserMediaRejects(c, rejection) /\ UNCHANGED <<serverVars, uploaderVars, adminVars, authVars, localVars, layoutVars, registerVars, documentsVars>>
    \/ \E c \in BagToSet(cameraCalls) :
            AttachStream(c) /\ UNCHANGED <<serverVars, uploaderVars, adminVars, authVars, localVars, layoutVars, registerVars, documentsVars>>
    \/ \E c \in BagToSet(cameraCalls) :
            PlayVideo(c) /\ UNCHANGED <<serverVars, uploaderVars, adminVars, authVars, localVars, layoutVars, registerVars, documentsVars>>
    \/ \E c \in BagToSet(cameraCalls) :
            ActivateCamera(c) /\ UNCHANGED <<serverVars, uploaderVars, adminVars, authVars, localVars, layoutVars, registerVars, documentsVars>>
    \/ \E c \in BagToSet(cameraCalls) :
            RetryPlay(c) /\ UNCHANGED <<serverVars, uploaderVars, adminVars, authVars, localVars, layoutVars, registerVars, documentsVars>>
    \/ \E c \in BagToSet(cameraCalls) :
            RetryPlayed(c) /\ UNCHANGED <<serverVars, uploaderVars, adminVars, authVars, localVars, layoutVars, registerVars, documentsVars>>

LayoutNext ==
    \/ LayoutOpened /\ UNCHANGED <<serverVars, uploaderVars, adminVars, authVars, localVars, cameraVars, registerVars, documentsVars>>
    \/ \E user \in AuthStates :
            LayoutAuthChanged(user) /\ UNCHANGED <<serverVars, uploaderVars, adminVars, authVars, localVars, cameraVars, registerVars, documentsVars>>
    \/ \E c \in BagToSet(layoutChecks) :
            LayoutGetIdToken(c) /\ UNCHANGED <<serverVars, uploaderVars, adminVars, authVars, localVars, cameraVars, registerVars, documentsVars>>
    \/ \E c \in BagToSet(layoutChecks) :
            LayoutFetchAnswers(c) /\ UNCHANGED <<serverVars, uploaderVars, adminVars, authVars, localVars, cameraVars, registerVars, documentsVars>>
    \/ LayoutNavigates /\ UNCHANGED <<serverVars, uploaderVars, adminVars, authVars, localVars, cameraVars, registerVars, documentsVars>>

RegisterNext ==
    \/ RegisterStart /\ UNCHANGED <<serverVars, uploaderVars, adminVars, authVars, localVars, cameraVars, layoutVars, documentsVars>>
    \/ \E e \in BagToSet(registerInflight) :
            RegisterFindOne(e) /\ UNCHANGED <<serverVars, uploaderVars, adminVars, authVars, localVars, cameraVars, layoutVars, documentsVars>>
    \/ \E e \in BagToSet(registerInflight) :
            RegisterSaveExisting(e) /\ UNCHANGED <<serverVars, uploaderVars, adminVars, authVars, localVars, cameraVars, layoutVars, documentsVars>>
    \/ \E e \in BagToSet(registerInflight) :
            RegisterSaveNew(e) /\ UNCHANGED <<serverVars, uploaderVars, adminVars, authVars, localVars, cameraVars, layoutVars, documentsVars>>
    \/ RegisterReturn /\ UNCHANGED <<serverVars, uploaderVars, adminVars, authVars, localVars, cameraVars, layoutVars, documentsVars>>

DocumentsNext ==
    \/ \E userIdFilter \in DocFilters, limit \in 1..MaxLimit, page \in 1..MaxPage :
            DocumentsGet(userIdFilter, limit, page) /\ UNCHANGED <<serverVars, uploaderVars, adminVars, authVars, localVars, cameraVars, layoutVars, registerVars>>
    \/ DocumentsQueried /\ UNCHANGED <<serverVars, uploaderVars, adminVars, authVars, localVars, cameraVars, layoutVars, registerVars>>
    \/ DocumentsCounted /\ UNCHANGED <<serverVars, uploaderVars, adminVars, authVars, localVars, cameraVars, layoutVars, registerVars>>

\* the initial states: one subsystem starts, the others are at rest
ServerStarts(m) ==
    /\ ServerInit(m)
    /\ UploaderInit
    /\ AdminAtRest
    /\ AuthAtRest
    /\ LocalAtRest
    /\ CameraInit
    /\ LayoutAtRest
    /\ RegisterInit
    /\ DocumentsAtRest

UploaderStarts ==
    /\ ServerAtRest
    /\ UploaderInit
    /\ AdminAtRest
    /\ AuthAtRest
    /\ LocalAtRest
    /\ CameraInit
    /\ LayoutAtRest
    /\ RegisterInit
    /\ DocumentsAtRest

AdminStarts ==
    /\ ServerAtRest
    /\ UploaderInit
    /\ AdminInit
    /\ AuthAtRest
    /\ LocalAtRest
    /\ CameraInit
    /\ LayoutAtRest
    /\ RegisterInit
    /\ DocumentsAtRest

AuthStarts ==
    /\ ServerAtRest
    /\ UploaderInit
    /\ AdminAtRest
    /\ AuthInit
    /\ LocalAtRest
    /\ CameraInit
    /\ LayoutAtRest
    /\ RegisterInit
    /\ DocumentsAtRest

LocalStarts ==
    /\ ServerAtRest
    /\ UploaderInit
    /\ AdminAtRest
    /\ AuthAtRest
    /\ LocalInit
    /\ CameraInit
    /\ LayoutAtRest
    /\ RegisterInit
    /\ DocumentsAtRest

CameraStarts ==
    /\ ServerAtRest
    /\ UploaderInit
    /\ AdminAtRest
    /\ AuthAtRest
    /\ LocalAtRest
    /\ CameraInit
    /\ LayoutAtRest
    /\ RegisterInit
    /\ DocumentsAtRest

LayoutStarts ==
    /\ ServerAtRest
    /\ UploaderInit
    /\ AdminAtRest
    /\ AuthAtRest
    /\ LocalAtRest
    /\ CameraInit
    /\ LayoutInit
    /\ RegisterInit
    /\ DocumentsAtRest

RegisterStarts ==
    /\ ServerAtRest
    /\ UploaderInit
    /\ AdminAtRest
    /\ AuthAtRest
    /\ LocalAtRest
    /\ CameraInit
    /\ LayoutAtRest
    /\ RegisterInit
    /\ DocumentsAtRest

DocumentsStarts ==
    /\ ServerAtRest
    /\ UploaderInit
    /\ AdminAtRest
    /\ AuthAtRest
    /\ LocalAtRest
    /\ CameraInit
    /\ LayoutAtRest
    /\ RegisterInit
    /\ DocumentsInit

\* the verification route, observed through its responses
SpecServer == ServerStarts("responses") /\ [][ServerNext]_vars

\* the verification route, observed through its calls of the model
SpecTraffic == ServerStarts("traffic") /\ [][ServerNext]_vars

\* the DocumentUploader component
SpecUploader == UploaderStarts /\ [][UploaderNext]_vars

\* the admin routes
SpecAdmin == AdminStarts /\ [][AdminNext]_vars

\* the AuthProvider with the dashboard and login pages
SpecAuth == AuthStarts /\ [][AuthNext]_vars

\* the local document heuristic
SpecLocal == LocalStarts /\ [][LocalNext]_vars

\* the camera of the DocumentUploader component
SpecCamera == CameraStarts /\ [][CameraNext]_vars

\* the admin layout
SpecLayout == LayoutStarts /\ [][LayoutNext]_vars

\* the register route
SpecRegister == RegisterStarts /\ [][RegisterNext]_vars

\* the admin documents route
SpecDocuments == DocumentsStarts /\ [][DocumentsNext]_vars
----------------------------------------------------------------------------
(* Properties of the Gemini verification route *)

RECURSIVE SumTo(_, _)
SumTo(f, n) == IF n = 0 THEN 0 ELSE f[n] + SumTo(f, n - 1)

\* model calls made less than RATE_LIMIT_RESET_INTERVAL ms ago
RecentForwards == SumTo(fwdRecent, WindowTicks)

\* C2: every request that carries an image file is answered with HTTP 200,
\* status 'success' and a verification object, however the model call fails
\* and whether or not the model is configured.
C2_ModelFailureNeverSurfaces ==
    (done.active /\ done.form = "image") =>
        /\ done.resp.http = 200
        /\ done.resp.status = "success"
        /\ done.resp.verification.present

\* a request with an image reached the model, the model call failed, and the
\* response has been produced
C2_Witness ==
    /\ done.active /\ done.form = "image" /\ done.forwarded
    /\ done.resp.verification.simulated

C4_Answered ==
    /\ (done.active /\ done.over /\ ~done.stale) =>
          /\ ~done.forwarded
          /\ done.resp.mockImplementation
          /\ (GEMINI_API_KEY /\ done.form = "image") =>
                done.resp.mockReason = "Rate limit exceeded"
    /\ \A e \in BagToSet(inflight) : e.pc = "model" => (e.stale \/ ~e.over)

C4_ResetStep ==
    (lastResetTime' # lastResetTime \/ apiCallsInLastMinute' < apiCallsInLastMinute)
        => /\ clock - lastResetTime > RATE_LIMIT_RESET_INTERVAL
           /\ apiCallsInLastMinute' = 1

C5_Original == RecentForwards <= RATE_LIMIT_MAX

\* C5, amended: of the requests counted since the last reset of the counter, at
\* most 10 reach the model before the next reset (a bound per fixed window, not
\* per 60-second interval).
C5_Amended == windowFwd <= RATE_LIMIT_MAX

\* ten requests of the window have reached the model and further requests of
\* the window have been counted
C5_Witness == windowFwd = RATE_LIMIT_MAX /\ apiCallsInLastMinute > RATE_LIMIT_MAX + 1

----------------------------------------------------------------------------
(* Properties of the DocumentUploader *)

\* C1 (as stated): every file whose verification failed (the request was
\* rejected, answered with a non-OK status or an error payload, or a step
\* threw) has moderationStatus 'safe'.
C1_Original ==
    \A k \in 1..Len(files) :
        files[k].failed => files[k].moderationStatus = "safe"

\* C3 (as stated): when the last response the uploader processed carries a
\* simulated verification, it has mockImplementation = true,
\* usingMockModeration is true, 'Demo Mode' is shown and 'Live API Mode' is not.
C3_Original ==
    (lastData.present /\ lastData.simulated) =>
        /\ lastData.mockImplementation
        /\ usingMockModeration
        /\ DemoModeShown
        /\ ~LiveApiModeShown

\* C7 (as stated): a running call of handleFileUpload can always take its
\* next step, so that it finishes; it never waits for something that cannot
\* happen.
C7_Original == isAnalyzing => ENABLED UploadStep

\* C8 (as stated): when the request for an image is sent, OCR has completed
\* and, if the classification model is loaded, classification has completed;
\* the request carries the OCR text and the feature vector.
C8_Original ==
    (call.request.sent /\ call.request.kind = "image") =>
        /\ call.ocr.done
        /\ call.request.ocrText = call.ocr.text
        /\ (model = "loaded" =>
                call.classified /\ call.request.features = "vector")

\* C8 (amended): when the request for an image is sent, OCR has completed and
\* the request carries its text and the anomalies found in it; if the model
\* was loaded when handleFileUpload was called, classification has completed
\* and the request carries the feature vector exactly when classification
\* produced one; otherwise the request carries no features.
C8_Amended ==
    (call.request.sent /\ call.request.kind = "image") =>
        /\ call.ocr.done
        /\ call.request.ocrText = call.ocr.text
        /\ call.request.textAnomalies = TextAnomalies(call.ocr.text)
        /\ IF call.modelSeen
           THEN /\ call.classified
                /\ (call.request.features = "vector") <=> (call.features = "vector")
           ELSE call.request.features = "none"

\* C8 (witness): the request for an image whose text has suspicious terms is
\* sent after classification, with the feature vector.
C8_Witness ==
    /\ call.request.sent
    /\ call.request.kind = "image"
    /\ call.modelSeen
    /\ call.classified
    /\ call.request.features = "vector"
    /\ call.request.textAnomalies = {"fakeTerms"}

----------------------------------------------------------------------------
(* Properties of the admin routes *)

\* what C6 requires of a response
C6_Response ==
    adminDone.active =>
        /\ (adminDone.resp.data \/ adminDone.resp.wrote) =>
                /\ adminDone.scheme = "Bearer"
                /\ adminDone.uid \in AuthUsers
                /\ adminDone.lookup = "admin"
                /\ usersDoc[adminDone.uid] = "admin"
        /\ adminDone.scheme # "Bearer" => adminDone.resp.status = 401
        /\ adminDone.lookup \in {"notAdmin", "failed"} => adminDone.resp.status = 403
        /\ adminDone.resp.status # 200 =>
                ~adminDone.resp.data /\ ~adminDone.resp.wrote

\* what C6 requires of a step that writes to Firestore
C6_Write ==
    usersDoc' # usersDoc =>
        /\ adminDone'.active
        /\ adminDone'.resp.wrote
        /\ adminDone'.resp.status = 200
        /\ usersDoc[adminDone'.uid] = "admin"

\* C6: the admin routes return data or write only for a caller whose token
\* verified to a uid whose users document has isAdmin = true; without a
\* Bearer header the answer is 401, for a non-admin or a failed lookup 403,
\* and a rejected request returns no data and writes nothing.
C6_AdminOnly == []C6_Response /\ [][C6_Write]_vars

\* C6 (witness): a non-admin is answered 403 while the make-admin request of
\* an admin is about to write.
C6_Witness ==
    /\ adminDone.active
    /\ adminDone.resp.status = 403
    /\ adminDone.lookup = "notAdmin"
    /\ \E e \in BagToSet(adminInflight) : e.pc = "set" /\ usersDoc[e.uid] = "admin"

----------------------------------------------------------------------------
(* Properties of the AuthProvider and the dashboard *)

\* C9: the dashboard shows its content only for a signed-in user, and when it
\* is mounted after loading with no user the redirect to /login is under way.
C9_DashboardGuarded ==
    /\ dashboardView = "content" => currentUser # "null"
    /\ (route = "/dashboard" /\ ~loading /\ currentUser = "null") =>
            (dashboardView = "null" /\ navigation = "/login")

\* C9 (witness): the user signed out on the dashboard; nothing is rendered
\* and the redirect is under way.
C9_Witness ==
    /\ route = "/dashboard"
    /\ delivered = "null"
    /\ currentUser = "null"
    /\ dashboardView = "null"
    /\ navigation = "/login"

\* what C10 requires of a state
C10_State ==
    /\ delivered = "never" => (loading /\ ~childrenShown)
    /\ delivered # "never" => (~loading /\ currentUser = delivered)

\* what C10 requires of a step
C10_Step == ~loading => ~loading'

\* C10: no children are rendered before the first auth-state callback; from
\* then on loading stays false and currentUser is the user delivered last.
C10_AuthProvider == []C10_State /\ [][C10_Step]_vars

\* C10 (witness): the children are rendered for the user delivered last while
\* the callback of a sign-out is outstanding.
C10_Witness ==
    /\ childrenShown
    /\ delivered = "bob"
    /\ currentUser = "bob"
    /\ authEvents = <<"null">>

----------------------------------------------------------------------------
(* Properties of the local document heuristic *)

\* C11 (as stated): the score before limiting is 0.9 less 0.2 or 0.3 for
\* every anomaly raised.
C11_Original ==
    localPc = "raw" =>
        \E n2 \in 0..Cardinality(detectedAnomalies) :
            LET n3 == Cardinality(detectedAnomalies) - n2
            IN  confidenceScore = 90 - 20 * n2 - 30 * n3

\* C11 (amended): the score before limiting starts at 0.9 for a .doc/.docx
\* and at 0.95 for a PDF; an extension mismatch lowers it by 0.4, a missing PDF
\* header by 0.5 and every other anomaly by 0.2 or 0.3.
C11_Amended ==
    localPc = "raw" =>
        LET n4 == IF "extensionMismatch" \in detectedAnomalies THEN 1 ELSE 0
            n5 == IF "noPdfHeader" \in detectedAnomalies THEN 1 ELSE 0
            rest == Cardinality(detectedAnomalies) - n4 - n5
            start == IF localInput.kind = "pdf" THEN 95 ELSE 90
        IN  \E n2 \in 0..rest :
                confidenceScore = start - 20 * n2 - 30 * (rest - n2) - 40 * n4 - 50 * n5

\* C11 (witness): a small PDF without a PDF header has 0.95 - 0.2 - 0.5.
C11_Witness ==
    /\ localPc = "raw"
    /\ localInput.kind = "pdf"
    /\ detectedAnomalies = {"smallPdf", "noPdfHeader"}
    /\ confidenceScore = 25

\* C18: the stored local verdict is 'flagged' exactly when a missing PDF
\* header, an extension mismatch or 'fake'-style terms in the text were found;
\* with other anomalies only it is 'safe'.
C18_FlaggedOnlyIfCritical ==
    localVerdict.stored =>
        /\ localVerdict.moderationStatus \in {"safe", "flagged"}
        /\ localVerdict.moderationStatus = "flagged" <=>
              detectedAnomalies
                  \cap {"noPdfHeader", "extensionMismatch", "fakeTerms"} # {}
        /\ localVerdict.isLikelyAiGenerated <=>
              localVerdict.moderationStatus = "flagged"

\* C18 (witness): a small PDF with a suspicious name, an AI creator and an AI
\* producer is stored as 'safe'.
C18_Witness ==
    /\ localVerdict.stored
    /\ localPc = "stored"
    /\ detectedAnomalies = {"smallPdf", "suspiciousName", "creatorAI", "producerAI"}
    /\ localVerdict.moderationStatus = "safe"

\* C19: the score stored with the local verdict lies between 0.1 and 1.
C19_ScoreInRange ==
    localVerdict.stored =>
        localVerdict.confidenceScore >= 10 /\ localVerdict.confidenceScore <= 100

\* C19 (witness): a small .doc with a suspicious name and an extension
\* mismatch, whose penalties add up to 0.9, is stored with 0.1.
C19_Witness ==
    /\ localPc = "stored"
    /\ localInput.kind = "doc"
    /\ detectedAnomalies = {"smallDoc", "suspiciousName", "extensionMismatch"}
    /\ localVerdict.confidenceScore = 10

----------------------------------------------------------------------------
(* Properties of the camera *)

\* C12 (as stated): when getUserMedia rejects with a denial, the message
\* shown is 'Camera access was denied. Please check your browser
\* permissions.' and the camera is left inactive and not initializing.
C12_Original ==
    [][(\E c \in BagToSet(cameraCalls) : GetUserMediaRejects(c, "deniedMatching"))
          => /\ "Camera access was denied. Please check your browser permissions."
                    \in CameraMessagesShown(cameraPermissionDenied', cameraError')
             /\ ~cameraActive'
             /\ ~cameraInitializing']_vars

\* C16 (as stated): when the 10 s timer fires while the camera is not active,
\* cameraError becomes the time-out message, the stream is stopped and
\* cameraInitializing becomes false.
C16_Original ==
    [][InitTimeout /\ ~cameraActive
          => /\ cameraError' = "Camera initialization timed out. Please try again."
             /\ streamRef' = "null"
             /\ ~cameraInitializing']_vars

----------------------------------------------------------------------------
(* Properties of the admin layout *)

\* C13 (as stated): the children are rendered only while the signed-in user
\* is one the admin users endpoint answered OK for.
C13_Original ==
    LayoutShown = "children" => layoutUser \in layoutPassed

----------------------------------------------------------------------------
(* Properties of POST make-admin *)

\* C14, the order of the checks: a make-admin handler is past the admin check
\* only for a caller who is an admin, reads the target's account only with a
\* targetUserId, and reaches the write only for a target that has an account.
C14_Order ==
    \A e \in BagToSet(adminInflight) :
        e.route = "make-admin" =>
            /\ e.pc \in {"body", "getUser", "set"} =>
                  e.uid \in AuthUsers /\ usersDoc[e.uid] = "admin"
            /\ e.pc \in {"getUser", "set"} => e.target # "none"
            /\ e.pc = "set" => e.target \in AuthUsers

\* C14, the answers: a handler that answers 400 or 404 has written nothing;
\* 404 is an answer of the account lookup, made with a targetUserId, and a
\* missing targetUserId is answered 400 before the account is looked up.
C14_Rejected ==
    (~adminDone.active /\ adminDone'.active /\ adminDone'.route = "make-admin"
        /\ adminDone'.resp.status \in {400, 404})
    => /\ usersDoc' = usersDoc
       /\ ~adminDone'.resp.wrote
       /\ adminDone'.resp.status = 404 =>
             \E e \in BagToSet(adminInflight) :
                 /\ e.pc = "getUser" /\ e.target # "none"
                 /\ adminInflight' = adminInflight (-) One(e)
       /\ adminDone'.resp.status = 400 =>
             \E e \in BagToSet(adminInflight) :
                 /\ e.pc = "body"
                 /\ adminInflight' = adminInflight (-) One(e)

\* C14, the write: the users documents change only by the write of a
\* make-admin handler that passed the three checks; it makes the target an
\* admin, whatever the target was, and changes no other document.
C14_Grant ==
    usersDoc' # usersDoc \/ (~adminDone.active /\ adminDone'.resp.wrote)
    => \E e \in BagToSet(adminInflight) :
          /\ e.route = "make-admin" /\ e.pc = "set" /\ e.target \in AuthUsers
          /\ usersDoc' = [usersDoc EXCEPT ![e.target] = "admin"]
          /\ adminDone' = AdminFinished("make-admin", "Bearer", e.uid, "admin", AdminGranted)

\* C14: make-admin writes isAdmin only after the caller is authorised, the
\* targetUserId is present (else 400) and the target exists (else 404), in
\* this order; 400 and 404 write nothing; a repeated grant leaves the target
\* an admin.
C14_MakeAdmin ==
    /\ []C14_Order
    /\ [][C14_Rejected]_vars
    /\ [][C14_Grant]_vars

\* C14 (witness): alice, the only admin, is answered success while bob is no
\* admin: she granted herself what she already had, and is still an admin.
C14_Witness ==
    /\ adminDone.active
    /\ adminDone.route = "make-admin"
    /\ adminDone.resp = AdminGranted
    /\ adminDone.uid = "alice"
    /\ usersDoc["alice"] = "admin"
    /\ usersDoc["bob"] # "admin"

----------------------------------------------------------------------------
(* Properties of the verification pipeline of the DocumentUploader *)

\* C15 (as stated): for an image the steps run in the order classification,
\* OCR, request: OCR runs only after classification has finished, and the
\* request is sent only after OCR has finished.
C15_Original ==
    (call.pc # "idle" /\ CurrentFile.kind = "image") =>
        /\ (call.pc \in {"ocrLoad", "ocrRecognize"} \/ call.ocr.done) => call.classified
        /\ call.request.sent => call.ocr.done

\* C15 (amended), the state of a running call: for an image OCR runs first,
\* with neither classification nor request begun; classification runs only
\* after OCR has finished, and only if the model was loaded when the call
\* started; the request is sent, and its answer awaited, only after OCR and,
\* if it runs, classification have finished.
C15_Steps ==
    (call.pc # "idle" /\ CurrentFile.kind = "image") =>
        /\ call.pc \in {"file", "ocrLoad", "ocrRecognize", "featLoad", "classify", "fetch"}
        /\ call.pc \in {"file", "ocrLoad", "ocrRecognize"} =>
              ~call.ocr.done /\ ~call.classified /\ ~call.request.sent
        /\ call.pc \in {"featLoad", "classify"} =>
              call.ocr.done /\ call.modelSeen /\ ~call.classified /\ ~call.request.sent
        /\ call.pc = "fetch" <=> call.request.sent
        /\ call.request.sent =>
              call.ocr.done /\ (call.classified <=> call.modelSeen)

\* C15 (amended), the steps: the verdict of an image is stored only by the
\* step that handles the answer to the request that was sent.
C15_Answer ==
    (call.pc # "idle" /\ CurrentFile.kind = "image"
        /\ files'[CurrentIndex] # files[CurrentIndex])
    => /\ call.pc = "fetch"
       /\ call.request.sent
       /\ files[CurrentIndex].moderationStatus = "pending"
       /\ files'[CurrentIndex].moderationStatus # "pending"

\* C15 (amended): the pipeline of an image runs in the order OCR,
\* classification (when the model was loaded as the call started), request with
\* the prompt and the model call on the server, handling of the reply; no step
\* starts before the one before it has finished.
C15_Amended == []C15_Steps /\ [][C15_Answer]_vars

\* C15 (witness): the request of an image is under way after OCR and
\* classification.
C15_Witness ==
    /\ call.pc = "fetch"
    /\ CurrentFile.kind = "image"
    /\ call.ocr.done
    /\ call.ocr.text = "plain"
    /\ call.classified
    /\ call.features = "vector"
    /\ call.request.sent

\* C17, the fallback step: the step that ends the request of a PDF leaves
\* moderationError alone and updates that file only: after a failure with the
\* local verdict, its status decided by the anomalies, and after an answer
\* with the answer's verdict.
C17_Step ==
    (call.pc = "fetch" /\ CurrentFile.kind = "pdf" /\ call'.pc # "fetch")
    => LET f == files'[CurrentIndex] IN
       /\ files[CurrentIndex].moderationStatus = "pending"
       /\ moderationError' = moderationError
       /\ \A k \in 1..Len(files) : k # CurrentIndex => files'[k] = files[k]
       /\ IF f.failed
          THEN /\ f.verificationDetails = call.local
               /\ f.verificationDetails.source = "local"
               /\ f.moderationStatus = StatusOf(call.local)
          ELSE /\ f.verificationDetails.source \in {"gemini", "skipped"}
               /\ lastData'.present

\* C17, exactly once: a file that has its verdict is not updated again.
C17_Once ==
    Len(files') >= Len(files) =>
        \A k \in 1..Len(files) :
            files[k].moderationStatus # "pending" => files'[k] = files[k]

\* C17, the result: a PDF never carries the details of the catch block.
C17_NeverFailedDetails ==
    \A k \in 1..Len(files) :
        files[k].kind = "pdf" =>
            /\ files[k].verificationDetails # FailedDetails
            /\ files[k].failed <=> files[k].verificationDetails.source = "local"

----------------------------------------------------------------------------
(* Properties of the register route *)

\* C20, one record per uid: no two documents of the collection have the same
\* uid, and a handler waiting for the database has a body with uid and email.
C20_OnePerUid ==
    /\ \A i, j \in 1..Len(userColl) : userColl[i].uid = userColl[j].uid => i = j
    /\ \A e \in BagToSet(registerInflight) :
          e.body.uid # "none" /\ e.body.email # "none"

\* C20, the answers: a body without uid or email is answered 400; 'User
\* login recorded' answers a request whose uid had a document, which now has
\* the time of the request as lastLoginAt; 'User registered successfully'
\* answers a request whose document is now the one with its uid.
C20_Answers ==
    registerDone.active =>
        /\ (registerDone.body.uid = "none" \/ registerDone.body.email = "none")
              => registerDone.status \in {400, 500}
                    /\ (registerDone.status = 500 => registerDone.cause = "connect")
        /\ registerDone.status = 400 =>
              registerDone.body.uid = "none" \/ registerDone.body.email = "none"
        /\ registerDone.status = 200 =>
              LET k == FindOne(userColl, registerDone.body.uid) IN
              /\ k # 0
              /\ userColl[k].lastLoginAt = registerDone.user.lastLoginAt
              /\ registerDone.body.displayName # "" =>
                    userColl[k].displayName = registerDone.body.displayName
              /\ registerDone.body.photoURL # "" =>
                    userColl[k].photoURL = registerDone.body.photoURL

\* C20, the writes: the collection changes only by the insertion of the
\* document of a request whose uid has none, or by an update that leaves
\* every uid, email and createdAt as it was, changes only the document of
\* the request's uid, and changes displayName and photoURL only to what the
\* body gives; an answer of 400 or 500 comes with no write.
C20_Writes ==
    /\ registerDone'.active /\ registerDone'.status # 200 => userColl' = userColl
    /\ userColl' # userColl =>
          /\ registerDone'.active /\ registerDone'.status = 200
          /\ \/ /\ registerDone'.message = "User registered successfully"
                /\ FindOne(userColl, registerDone'.body.uid) = 0
                /\ userColl' = Append(userColl,
                      UserDoc(registerDone'.body.uid, registerDone'.body.email,
                              registerDone'.body.displayName,
                              registerDone'.body.photoURL,
                              registerDone'.user.lastLoginAt))
             \/ /\ registerDone'.message = "User login recorded"
                /\ Len(userColl') = Len(userColl)
                /\ \A k \in 1..Len(userColl) :
                      IF userColl[k].uid = registerDone'.body.uid
                      THEN /\ userColl'[k].uid = userColl[k].uid
                           /\ userColl'[k].email = userColl[k].email
                           /\ userColl'[k].createdAt = userColl[k].createdAt
                           /\ userColl'[k].displayName
                                 \in {userColl[k].displayName, registerDone'.body.displayName}
                           /\ userColl'[k].photoURL
                                 \in {userColl[k].photoURL, registerDone'.body.photoURL}
                      ELSE userColl'[k] = userColl[k]

----------------------------------------------------------------------------
(* Properties of the admin documents route *)

\* C21, one page: an answered request returns at most limit documents: the
\* matching documents that have at least (page - 1) * limit and fewer than
\* page * limit matching documents before them in descending createdAt order,
\* in that order; it reports the number of matching documents as total and
\* the least number of pages of limit documents that hold them as pages.
C21_Page ==
    (docPc = "idle" /\ docResponse.status = 200) =>
        LET m == Matching(docColl, docRequest.userId)
            limit == docRequest.limit
            page == docRequest.page
            docs == docResponse.documents
            rank(d) == Cardinality({e \in m : ComesBefore(e, d)})
        IN  /\ Len(docs) <= limit
            /\ {docs[k] : k \in 1..Len(docs)}
                  = {d \in m : rank(d) >= (page - 1) * limit /\ rank(d) < page * limit}
            /\ \A k \in 1..Len(docs) : rank(docs[k]) = (page - 1) * limit + k - 1
            /\ \A j, k \in 1..Len(docs) :
                  j < k => docs[j].createdAt >= docs[k].createdAt
            /\ docResponse.pagination.total = Cardinality(m)
            /\ docResponse.pagination.pages * limit >= Cardinality(m)
            /\ (docResponse.pagination.pages - 1) * limit < Cardinality(m)
                  \/ (Cardinality(m) = 0 /\ docResponse.pagination.pages = 0)
            /\ docResponse.pagination.currentPage = page
            /\ docResponse.pagination.limit = limit

\* C21, all pages: when the pages 1 to pages have been requested one after
\* the other, every matching document has been returned exactly once.
C21_Walk ==
    (docPc = "idle" /\ docResponse.status = 200 /\ docSeen.walking
        /\ docSeen.last = docResponse.pagination.pages) =>
        LET m == Matching(docColl, docRequest.userId) IN
        /\ Len(docSeen.ids) = Cardinality(m)
        /\ \A d \in m :
              Cardinality({k \in 1..Len(docSeen.ids) : docSeen.ids[k] = d.id}) = 1

\* C21: for page >= 1 and limit >= 1 the documents route returns at most
\* limit documents from offset (page - 1) * limit in descending createdAt
\* order and reports pages = ceil(total / limit); the pages 1 to pages of an
\* unchanged collection hold every matching document exactly once.
C21_Pagination == C21_Page /\ C21_Walk

\* C21 (witness): three documents, two of them with the same createdAt, have
\* been returned by pages 1 and 2 of limit 2.
C21_Witness ==
    /\ docPc = "idle"
    /\ docResponse.status = 200
    /\ docRequest.limit = 2
    /\ docRequest.page = 2
    /\ docRequest.userId = "none"
    /\ docResponse.pagination.pages = 2
    /\ docSeen.walking
    /\ Len(docSeen.ids) = 3
    /\ Len(docResponse.documents) = 1
    /\ \E d, e \in docColl : d # e /\ d.createdAt = e.createdAt

====
